---- MODULE Spec2Model ----
(***************************************************************************)
(* A model of the `bug` crate (src/src/lib.rs, src/src/url_encode.rs):     *)
(* the URL encoder, the placeholder scanner, template parsing, validation  *)
(* and filling, the URL builder, and the two configuration lifetimes (the  *)
(* owned handle and the process-wide OnceCell).                            *)
(*                                                                         *)
(* Text is a sequence of bytes (0..255).  All text of the model is ASCII,  *)
(* where Rust's chars() and bytes() coincide; the encoder is also applied  *)
(* to the bytes above 127 that a multi-byte UTF-8 sequence is made of.     *)
(***************************************************************************)
EXTENDS Integers, Sequences, FiniteSets, TLC

VARIABLES
    stage,  \* the operation the program performed last
    arg,    \* the arguments of that operation
    res,    \* what it returned
    holder, \* the builder or the handle the program holds: Some(..) or None
    CONFIG, \* the global OnceCell<BugReportConfig>
    hist,   \* history: what was registered last under each name, the
            \* build() attempts so far, the configuration of the first one
    store,  \* the BugReportConfig objects owned by handles, by address
    handles,\* the handles of the program: the address of the config of each
    pc,     \* per thread that calls build(): its position in the call
    ret,    \* per thread that calls build(): what the call returned
    sink    \* the output (&mut dyn Output) handed to the reporter: the text
            \* written to it so far

callVars == <<stage, arg, res>>
progVars == <<holder, CONFIG, hist>>
heapVars == <<store, handles>>
threadVars == <<pc, ret>>
ioVars == <<sink>>
vars == <<stage, arg, res, holder, CONFIG, hist, store, handles, pc, ret, sink>>

(***************************************************************************)
(* Bounds of the model.                                                    *)
(***************************************************************************)
MaxEncLen == 2      \* longest encoder input drawn from EncAlphabet
MaxTokens == 3      \* most tokens a template text is concatenated from
MaxOps == 2         \* most configuration calls (add_template, add_template_file,
                    \* hyperlinks) in a run
MaxInits == 2       \* most builders and handles created in a run
MaxHandles == 2     \* most handles alive at once (the first and its copies)
NThreads == 2       \* threads that call build() concurrently

(***************************************************************************)
(* Sequence helpers.                                                       *)
(***************************************************************************)
Range(s) == {s[i] : i \in 1..Len(s)}

SeqsUpTo(S, n) == UNION {[1..k -> S] : k \in 0..n}

\* Vec::contains / slice::contains
Contains(s, x) == \E i \in 1..Len(s) : s[i] = x

(***************************************************************************)
(* url_encode::encode                                                      *)
(***************************************************************************)
\* the first match arm: ALPHA / DIGIT / "-" / "." / "_" / "~"
IsUnreservedWithSpace(byte) ==
    \/ byte >= 65 /\ byte <= 90
    \/ byte >= 97 /\ byte <= 122
    \/ byte >= 48 /\ byte <= 57
    \/ byte \in {45, 46, 95, 126, 32}

IsUnreserved(byte) ==
    \/ byte >= 65 /\ byte <= 90         \* b'A'..=b'Z'
    \/ byte >= 97 /\ byte <= 122        \* b'a'..=b'z'
    \/ byte >= 48 /\ byte <= 57         \* b'0'..=b'9'
    \/ byte \in {45, 46, 95, 126}       \* b'-' | b'.' | b'_' | b'~'

\* one digit of the "{:02x}" format
HexDigitLower(n) == IF n < 10 THEN 48 + n ELSE 87 + n

\* one digit of the "{:02X}" format: 0-9, A-F
HexDigit(n) == IF n < 10 THEN 48 + n ELSE 55 + n

\* a loop body that lets '&' and '=' through as they are
encode_byte_separators_raw(byte) ==
    IF IsUnreserved(byte) \/ byte \in {38, 61} THEN <<byte>>
    ELSE IF byte = 32 THEN <<43>>
    ELSE <<37, HexDigit(byte \div 16), HexDigit(byte % 16)>>

\* a loop body that lets '+' through as it is
encode_byte_plus_raw(byte) ==
    IF IsUnreserved(byte) \/ byte = 43 THEN <<byte>>
    ELSE IF byte = 32 THEN <<43>>
    ELSE <<37, HexDigit(byte \div 16), HexDigit(byte % 16)>>

\* the body of the for loop: what one byte appends to the output
encode_byte(byte) ==
    IF IsUnreserved(byte) THEN <<byte>>
    ELSE IF byte = 32 THEN <<43>>                               \* ' ' => '+'
    ELSE <<37, HexDigit(byte \div 16), HexDigit(byte % 16)>>    \* "%{:02X}"

RECURSIVE encode_loop(_, _, _)
encode_loop(input, i, output) ==
    IF i > Len(input) THEN output
    ELSE encode_loop(input, i + 1, output \o encode_byte(input[i]))

encode(input) == encode_loop(input, 1, <<>>)

(***************************************************************************)
(* Results and parameter sets.                                             *)
(*                                                                         *)
(* A Result<T, String> is a record: Ok(v) or Err(message).  A parameter    *)
(* set (FxHashMap<String, String>) is the sequence of its entries in the   *)
(* order the map iterates them: the keys are distinct, and two orders of   *)
(* the same entries are the same map iterated differently.                 *)
(***************************************************************************)
Ok(v) == [ok |-> TRUE, val |-> v]

Err(e) == [ok |-> FALSE, val |-> e]

\* params.keys() as a set
KeySet(params) == {params[i].key : i \in 1..Len(params)}

\* params.contains_key(key)
contains_key(params, key) == key \in KeySet(params)

(***************************************************************************)
(* extract_placeholders                                                    *)
(***************************************************************************)
\* char::is_alphanumeric on ASCII
is_alphanumeric(ch) ==
    \/ ch >= 48 /\ ch <= 57
    \/ ch >= 65 /\ ch <= 90
    \/ ch >= 97 /\ ch <= 122

\* an inner loop that leaves the aborting character to the outer loop
RECURSIVE scan_inner_peek(_, _, _)
scan_inner_peek(content, j, placeholder) ==
    IF j > Len(content)
    THEN [next |-> j, found_end |-> FALSE, placeholder |-> placeholder]
    ELSE IF content[j] = 125
    THEN [next |-> j + 1, found_end |-> TRUE, placeholder |-> placeholder]
    ELSE IF is_alphanumeric(content[j]) \/ content[j] = 95
    THEN scan_inner_peek(content, j + 1, Append(placeholder, content[j]))
    ELSE [next |-> j, found_end |-> FALSE, placeholder |-> <<>>]

\* the inner `while let Some(inner_ch) = chars.next()`: from position j with
\* `placeholder` accumulated; `next` is the position the iterator is left at
RECURSIVE scan_inner(_, _, _)
scan_inner(content, j, placeholder) ==
    IF j > Len(content)
    THEN [next |-> j, found_end |-> FALSE, placeholder |-> placeholder]
    ELSE IF content[j] = 125                                    \* '}'
    THEN [next |-> j + 1, found_end |-> TRUE, placeholder |-> placeholder]
    ELSE IF is_alphanumeric(content[j]) \/ content[j] = 95      \* '_'
    THEN scan_inner(content, j + 1, Append(placeholder, content[j]))
    ELSE [next |-> j + 1, found_end |-> FALSE, placeholder |-> <<>>]

\* the push without the `!placeholders.contains(&placeholder)` test
push_placeholder_dup(placeholders, r) ==
    IF r.found_end /\ r.placeholder # <<>>
    THEN Append(placeholders, r.placeholder)
    ELSE placeholders

\* `if found_end && !placeholder.is_empty() && !placeholders.contains(..)`
push_placeholder(placeholders, r) ==
    IF r.found_end /\ r.placeholder # <<>> /\ ~Contains(placeholders, r.placeholder)
    THEN Append(placeholders, r.placeholder)
    ELSE placeholders

\* the outer `while let Some(ch) = chars.next()`
RECURSIVE scan_outer(_, _, _)
scan_outer(content, i, placeholders) ==
    IF i > Len(content) THEN placeholders
    ELSE IF content[i] = 123                                    \* '{'
    THEN LET r == scan_inner(content, i + 1, <<>>)
         IN  scan_outer(content, r.next, push_placeholder(placeholders, r))
    ELSE scan_outer(content, i + 1, placeholders)

extract_placeholders(content) == scan_outer(content, 1, <<>>)

(***************************************************************************)
(* TemplateFile::validate_params                                           *)
(***************************************************************************)
MissingRequiredParameter == \* "Missing required parameter: "
    <<77, 105, 115, 115, 105, 110, 103, 32, 114, 101, 113, 117, 105, 114, 101,
      100, 32, 112, 97, 114, 97, 109, 101, 116, 101, 114, 58, 32>>

UnusedParameter == \* "Unused parameter: "
    <<85, 110, 117, 115, 101, 100, 32, 112, 97, 114, 97, 109, 101, 116, 101,
      114, 58, 32>>

\* `for placeholder in &placeholders`, from index i
RECURSIVE check_missing(_, _, _)
check_missing(placeholders, params, i) ==
    IF i > Len(placeholders) THEN Ok(<<>>)
    ELSE IF ~contains_key(params, placeholders[i])
    THEN Err(MissingRequiredParameter \o placeholders[i])
    ELSE check_missing(placeholders, params, i + 1)

\* a second loop that returns after the first key it looks at
check_unused_first(placeholders, params, i) ==
    IF i > Len(params) THEN Ok(<<>>)
    ELSE IF ~Contains(placeholders, params[i].key)
    THEN Err(UnusedParameter \o params[i].key)
    ELSE Ok(<<>>)

\* `for param_key in params.keys()`, from index i of the iteration
RECURSIVE check_unused(_, _, _)
check_unused(placeholders, params, i) ==
    IF i > Len(params) THEN Ok(<<>>)
    ELSE IF ~Contains(placeholders, params[i].key)
    THEN Err(UnusedParameter \o params[i].key)
    ELSE check_unused(placeholders, params, i + 1)

\* validate_params without its second loop
validate_params_missing_only(template_file, params) ==
    check_missing(extract_placeholders(template_file.content), params, 1)

\* validate_params with its two loops in the other order
validate_params_unused_first(template_file, params) ==
    LET placeholders == extract_placeholders(template_file.content)
        unused == check_unused(placeholders, params, 1)
    IN  IF ~unused.ok THEN unused
        ELSE check_missing(placeholders, params, 1)

validate_params(template_file, params) ==
    LET placeholders == extract_placeholders(template_file.content)
        missing == check_missing(placeholders, params, 1)
    IN  IF ~missing.ok THEN missing
        ELSE check_unused(placeholders, params, 1)

(***************************************************************************)
(* TemplateFile::parse                                                     *)
(***************************************************************************)
TemplateFileIsEmpty == \* "Template file is empty"
    <<84, 101, 109, 112, 108, 97, 116, 101, 32, 102, 105, 108, 101, 32, 105,
      115, 32, 101, 109, 112, 116, 121>>

TemplateMustHaveTitle == \* "Template must have a title on the first line"
    <<84, 101, 109, 112, 108, 97, 116, 101, 32, 109, 117, 115, 116, 32, 104,
      97, 118, 101, 32, 97, 32, 116, 105, 116, 108, 101, 32, 111, 110, 32,
      116, 104, 101, 32, 102, 105, 114, 115, 116, 32, 108, 105, 110, 101>>

\* a line loses the '\r' of a "\r\n" ending
strip_cr(line) ==
    IF line # <<>> /\ line[Len(line)] = 13
    THEN SubSeq(line, 1, Len(line) - 1)
    ELSE line

\* str::lines: split at each '\n'; text after the last '\n' is a line only
\* when it is not empty
RECURSIVE lines_loop(_, _, _, _)
lines_loop(content, i, cur, acc) ==
    IF i > Len(content)
    THEN IF cur = <<>> THEN acc ELSE Append(acc, cur)
    ELSE IF content[i] = 10
    THEN lines_loop(content, i + 1, <<>>, Append(acc, strip_cr(cur)))
    ELSE lines_loop(content, i + 1, Append(cur, content[i]), acc)

lines(content) == lines_loop(content, 1, <<>>, <<>>)

\* char::is_whitespace on ASCII
is_whitespace(ch) == (ch >= 9 /\ ch <= 13) \/ ch = 32

RECURSIVE trim_start(_)
trim_start(s) ==
    IF s # <<>> /\ is_whitespace(Head(s)) THEN trim_start(Tail(s)) ELSE s

RECURSIVE trim_end(_)
trim_end(s) ==
    IF s # <<>> /\ is_whitespace(s[Len(s)])
    THEN trim_end(SubSeq(s, 1, Len(s) - 1))
    ELSE s

\* a trim that leaves the end alone (str::trim_start)
trim_start_only(s) == trim_start(s)

\* str::trim
trim(s) == trim_end(trim_start(s))

\* [String]::join
RECURSIVE join(_, _)
join(strs, sep) ==
    IF strs = <<>> THEN <<>>
    ELSE IF Len(strs) = 1 THEN strs[1]
    ELSE strs[1] \o sep \o join(Tail(strs), sep)

parse(template_file) ==
    LET ls == lines(template_file.content)
    IN  IF ls = <<>> THEN Err(TemplateFileIsEmpty)
        ELSE LET title == trim(ls[1])
             IN  IF title = <<>> THEN Err(TemplateMustHaveTitle)
                 ELSE Ok([title |-> title,
                          body |-> IF Len(ls) > 1
                                   THEN trim(join(Tail(ls), <<10>>))
                                   ELSE <<>>,
                          labels |-> template_file.labels])

(***************************************************************************)
(* IssueTemplate::fill_params, IssueTemplate::from_template_file           *)
(***************************************************************************)
\* whether `from` occurs in s at position i
MatchesAt(s, i, from) ==
    /\ i + Len(from) - 1 <= Len(s)
    /\ SubSeq(s, i, i + Len(from) - 1) = from

\* str::replace: every non-overlapping occurrence, left to right
RECURSIVE replace_loop(_, _, _, _, _)
replace_loop(s, i, from, to, out) ==
    IF i > Len(s) THEN out
    ELSE IF MatchesAt(s, i, from)
    THEN replace_loop(s, i + Len(from), from, to, out \o to)
    ELSE replace_loop(s, i + 1, from, to, Append(out, s[i]))

\* a replace that stops after the first occurrence (str::replacen(.., 1))
RECURSIVE replace_first_loop(_, _, _, _, _)
replace_first_loop(s, i, from, to, out) ==
    IF i > Len(s) THEN out
    ELSE IF MatchesAt(s, i, from)
    THEN out \o to \o SubSeq(s, i + Len(from), Len(s))
    ELSE replace_first_loop(s, i + 1, from, to, Append(out, s[i]))

replace_first(s, from, to) == replace_first_loop(s, 1, from, to, <<>>)

replace(s, from, to) == replace_loop(s, 1, from, to, <<>>)

\* format!("{{{}}}", key)
placeholder_of(key) == <<123>> \o key \o <<125>>

\* a loop that leaves after the first key
fill_loop_once(text, params, i) ==
    IF i > Len(params) THEN text
    ELSE replace(text, placeholder_of(params[i].key), params[i].value)

\* `for (key, value) in params`, from index i of the iteration
RECURSIVE fill_loop(_, _, _)
fill_loop(text, params, i) ==
    IF i > Len(params) THEN text
    ELSE fill_loop(replace(text, placeholder_of(params[i].key), params[i].value),
                   params, i + 1)

\* a fill that substitutes in the labels too
fill_params_labels(template, params) ==
    [title |-> fill_loop(template.title, params, 1),
     body |-> fill_loop(template.body, params, 1),
     labels |-> [n \in 1..Len(template.labels) |->
                    fill_loop(template.labels[n], params, 1)]]

fill_params(template, params) ==
    [title |-> fill_loop(template.title, params, 1),
     body |-> fill_loop(template.body, params, 1),
     labels |-> template.labels]

\* a from_template_file that parses and fills without validating
from_template_file_unvalidated(template_file, params) ==
    LET parsed_template == parse(template_file)
    IN  IF ~parsed_template.ok THEN parsed_template
        ELSE Ok(fill_params(parsed_template.val, params))

from_template_file(template_file, params) ==
    LET valid == validate_params(template_file, params)
    IN  IF ~valid.ok THEN valid                         \* validate_params(params)?
        ELSE LET parsed_template == parse(template_file)
             IN  IF ~parsed_template.ok THEN parsed_template    \* parse()?
                 ELSE Ok(fill_params(parsed_template.val, params))

(***************************************************************************)
(* BugReportConfig, BugReportConfigBuilder, BugReportHandle                *)
(*                                                                         *)
(* A map (FxHashMap<String, _>) is a function whose domain is its set of   *)
(* keys.                                                                   *)
(***************************************************************************)
EmptyMap == <<>>

\* FxHashMap::insert: the new value replaces the one stored under the key
insert(map, key, value) == (key :> value) @@ map

\* BugReportConfigBuilder::new and BugReportHandle::new build the same value
BugReportConfig_new(github_owner, github_repo) ==
    [github_owner |-> github_owner,
     github_repo |-> github_repo,
     templates |-> EmptyMap,
     template_files |-> EmptyMap,
     use_hyperlinks |-> "Auto"]

Builder_add_template(config, name, template) ==
    [config EXCEPT !.templates = insert(config.templates, name, template)]

Builder_add_template_file(config, name, template_file) ==
    [config EXCEPT !.template_files = insert(config.template_files, name, template_file)]

Builder_hyperlinks(config, mode) ==
    [config EXCEPT !.use_hyperlinks = mode]

Handle_add_template(config, name, template) ==
    [config EXCEPT !.templates = insert(config.templates, name, template)]

Handle_add_template_file(config, name, template_file) ==
    [config EXCEPT !.template_files = insert(config.template_files, name, template_file)]

Handle_hyperlinks(config, mode) ==
    [config EXCEPT !.use_hyperlinks = mode]

\* a copy that shares the configuration object of the handle it is made of
Handle_clone_shared(objects, addr) == [store |-> objects, addr |-> addr]

\* #[derive(Clone)] on BugReportHandle and BugReportConfig: the copy owns a
\* new configuration object, each field cloned from the original's
Handle_clone(objects, addr) ==
    [store |-> Append(objects,
                      [github_owner |-> objects[addr].github_owner,
                       github_repo |-> objects[addr].github_repo,
                       templates |-> objects[addr].templates,
                       template_files |-> objects[addr].template_files,
                       use_hyperlinks |-> objects[addr].use_hyperlinks]),
     addr |-> Len(objects) + 1]

(***************************************************************************)
(* BugReportHandle::generate_url                                           *)
(***************************************************************************)
GithubCom == \* "https://github.com/"
    <<104, 116, 116, 112, 115, 58, 47, 47, 103, 105, 116, 104, 117, 98, 46,
      99, 111, 109, 47>>

IssuesNew == \* "/issues/new"
    <<47, 105, 115, 115, 117, 101, 115, 47, 110, 101, 119>>

TitleEq == <<116, 105, 116, 108, 101, 61>>             \* "title="

BodyEq == <<98, 111, 100, 121, 61>>                    \* "body="

LabelsEq == <<108, 97, 98, 101, 108, 115, 61>>         \* "labels="

TemplateQuote == \* "Template '"
    <<84, 101, 109, 112, 108, 97, 116, 101, 32, 39>>

QuoteNotFound == \* "' not found"
    <<39, 32, 110, 111, 116, 32, 102, 111, 117, 110, 100>>

\* a lookup that forgets the name in its error
Handle_lookup_anonymous(config, template_name, params) ==
    IF template_name \in DOMAIN config.templates
    THEN Ok(fill_params(config.templates[template_name], params))
    ELSE IF template_name \in DOMAIN config.template_files
    THEN from_template_file(config.template_files[template_name], params)
    ELSE Err(TemplateQuote \o QuoteNotFound)

\* a lookup that consults the file-backed map first
Handle_lookup_files_first(config, template_name, params) ==
    IF template_name \in DOMAIN config.template_files
    THEN from_template_file(config.template_files[template_name], params)
    ELSE IF template_name \in DOMAIN config.templates
    THEN Ok(fill_params(config.templates[template_name], params))
    ELSE Err(TemplateQuote \o template_name \o QuoteNotFound)

\* a lookup that validates the parameters of an inline template as it does
\* those of a template file
Handle_lookup_validating(config, template_name, params) ==
    IF template_name \in DOMAIN config.templates
    THEN LET template == config.templates[template_name]
             valid == validate_params(
                          [content |-> template.title \o <<10>> \o template.body,
                           labels |-> template.labels], params)
         IN  IF ~valid.ok THEN valid ELSE Ok(fill_params(template, params))
    ELSE IF template_name \in DOMAIN config.template_files
    THEN from_template_file(config.template_files[template_name], params)
    ELSE Err(TemplateQuote \o template_name \o QuoteNotFound)

\* `let filled_template = if let Some(template) = ... else ... else return Err`
Handle_lookup(config, template_name, params) ==
    IF template_name \in DOMAIN config.templates
    THEN Ok(fill_params(config.templates[template_name], params))
    ELSE IF template_name \in DOMAIN config.template_files
    THEN from_template_file(config.template_files[template_name], params)
    ELSE Err(TemplateQuote \o template_name \o QuoteNotFound)

\* the pushes with the title pushed even when it is empty
Handle_query_params_always_title(filled_template) ==
    <<TitleEq \o encode(filled_template.title)>>
    \o (IF filled_template.body # <<>>
        THEN <<BodyEq \o encode(filled_template.body)>> ELSE <<>>)
    \o (IF filled_template.labels # <<>>
        THEN <<LabelsEq \o encode(join(filled_template.labels, <<44>>))>> ELSE <<>>)

\* `let mut query_params = Vec::new()` and the three conditional pushes
Handle_query_params(filled_template) ==
    (IF filled_template.title # <<>>
     THEN <<TitleEq \o encode(filled_template.title)>> ELSE <<>>)
    \o (IF filled_template.body # <<>>
        THEN <<BodyEq \o encode(filled_template.body)>> ELSE <<>>)
    \o (IF filled_template.labels # <<>>
        THEN <<LabelsEq \o encode(join(filled_template.labels, <<44>>))>> ELSE <<>>)

generate_url(config, template_name, params) ==
    LET filled_template == Handle_lookup(config, template_name, params)
    IN  IF ~filled_template.ok THEN filled_template
        ELSE LET url == GithubCom \o config.github_owner \o <<47>>
                        \o config.github_repo \o IssuesNew
                 query_params == Handle_query_params(filled_template.val)
             IN  IF query_params # <<>>
                 THEN Ok(url \o <<63>> \o join(query_params, <<38>>))
                 ELSE Ok(url)

(***************************************************************************)
(* Output, NoOutput, and BugReportHandle::report_bug_with_output           *)
(*                                                                         *)
(* An output is a record: NoOutput discards what is written to it, any     *)
(* other output (the MockOutput of the doctests, Stderr) appends it to its *)
(* text.  write_fmt writes its formatted arguments as write_str does.      *)
(***************************************************************************)
NoOutput == [discard |-> TRUE, text |-> <<>>]

\* struct MockOutput(String)
MockOutput(text) == [discard |-> FALSE, text |-> text]

\* Output::write_str, Output::write_fmt
write_str(out, str) ==
    IF out.discard THEN out ELSE [out EXCEPT !.text = @ \o str]

\* Display for u32: the decimal digits
RECURSIVE fmt_u32(_)
fmt_u32(n) ==
    IF n < 10 THEN <<48 + n>> ELSE fmt_u32(n \div 10) \o <<48 + (n % 10)>>

BugEncounteredIn == \* "\u{1F41B} BUG ENCOUNTERED in " (the bug emoji in UTF-8)
    <<240, 159, 144, 155, 32, 66, 85, 71, 32, 69, 78, 67, 79, 85, 78, 84, 69,
      82, 69, 68, 32, 105, 110, 32>>

TemplateColon == \* "   Template: "
    <<32, 32, 32, 84, 101, 109, 112, 108, 97, 116, 101, 58, 32>>

ParametersColon == \* "   Parameters:\n"
    <<32, 32, 32, 80, 97, 114, 97, 109, 101, 116, 101, 114, 115, 58, 10>>

FileABugReport == \* "File a bug report"
    <<70, 105, 108, 101, 32, 97, 32, 98, 117, 103, 32, 114, 101, 112, 111,
      114, 116>>

ErrorGenerating == \* "   Error generating bug report: "
    <<32, 32, 32, 69, 114, 114, 111, 114, 32, 103, 101, 110, 101, 114, 97,
      116, 105, 110, 103, 32, 98, 117, 103, 32, 114, 101, 112, 111, 114, 116,
      58, 32>>

\* format!("\x1b]8;;{}\x1b\\{}\x1b]8;;\x1b\\", url, text)
create_terminal_hyperlink(url, text) ==
    <<27, 93, 56, 59, 59>> \o url \o <<27, 92>> \o text
    \o <<27, 93, 56, 59, 59, 27, 92>>

\* "BUG ENCOUNTERED in {}:{}\n"
write_header(out, file, line) ==
    write_str(out, BugEncounteredIn \o file \o <<58>> \o fmt_u32(line) \o <<10>>)

\* `for (key, value) in params`: "     {}: {}\n", from index i of the iteration
RECURSIVE write_params_loop(_, _, _)
write_params_loop(out, params, i) ==
    IF i > Len(params) THEN out
    ELSE write_params_loop(
             write_str(out, <<32, 32, 32, 32, 32>> \o params[i].key \o <<58, 32>>
                            \o params[i].value \o <<10>>),
             params, i + 1)

\* the heading written whether or not there are parameters
write_parameters_always(out, params) ==
    write_params_loop(write_str(out, ParametersColon), params, 1)

\* `if !params.is_empty() { ... }`
write_parameters(out, params) ==
    IF params # <<>>
    THEN write_params_loop(write_str(out, ParametersColon), params, 1)
    ELSE out

\* a policy that asks the probe whatever the mode
should_use_hyperlinks_probe(use_hyperlinks, probe) == probe

\* `match self.config.use_hyperlinks`; probe is what supports_hyperlinks()
\* returns in the environment of the call
should_use_hyperlinks(use_hyperlinks, probe) ==
    CASE use_hyperlinks = "Auto" -> probe
      [] use_hyperlinks = "Always" -> TRUE
      [] use_hyperlinks = "Never" -> FALSE

\* `if should_use_hyperlinks { ... } else { ... }`
write_link(out, url, use_hyperlinks, probe) ==
    IF should_use_hyperlinks(use_hyperlinks, probe)
    THEN write_str(out, <<32, 32, 32>> \o create_terminal_hyperlink(url, FileABugReport)
                        \o <<10>>)
    ELSE write_str(out, <<32, 32, 32>> \o FileABugReport \o <<58, 32>> \o url \o <<10>>)

\* an Err arm that returns the message
report_error_message(out, file, line, e) ==
    [output |-> write_str(write_str(write_header(out, file, line),
                                    ErrorGenerating \o e \o <<10>>),
                          <<10>>),
     result |-> e]

\* the `Err(e) => { ... }` arm
report_error(out, file, line, e) ==
    [output |-> write_str(write_str(write_header(out, file, line),
                                    ErrorGenerating \o e \o <<10>>),
                          <<10>>),
     result |-> <<>>]                                   \* String::new()

\* the output after the call and the String returned
report_bug_with_output(config, template_name, params, file, line, out, probe) ==
    LET generated == generate_url(config, template_name, params)
    IN  IF generated.ok
        THEN LET url == generated.val
                 o1 == write_header(out, file, line)
                 o2 == write_str(o1, TemplateColon \o template_name \o <<10>>)
                 o3 == write_parameters(o2, params)
                 o4 == write_link(o3, url, config.use_hyperlinks, probe)
             IN  [output |-> write_str(o4, <<10>>), result |-> url]
        ELSE report_error(out, file, line, generated.val)

\* report_bug: report_bug_with_output with `&mut NoOutput`
report_bug(config, template_name, params, file, line, probe) ==
    report_bug_with_output(config, template_name, params, file, line,
                           NoOutput, probe).result

(***************************************************************************)
(* The global CONFIG (std): a once_cell::sync::OnceCell<BugReportConfig>.  *)
(* The cell is INCOMPLETE until a set has stored its value and made it     *)
(* COMPLETE; get returns the value of a COMPLETE cell only.                *)
(***************************************************************************)
None == [some |-> FALSE]

Some(value) == [some |-> TRUE, value |-> value]

OnceCell_new == [state |-> "INCOMPLETE", slot |-> None]

\* OnceCell::get
OnceCell_get(cell) == IF cell.state = "COMPLETE" THEN cell.slot ELSE None

\* OnceCell::set with no other thread running: Ok(()) and the value stored if
\* the cell was empty, Err(value) and the cell unchanged if it was full
OnceCell_set(cell, value) ==
    IF cell.state = "INCOMPLETE"
    THEN [cell |-> [state |-> "COMPLETE", slot |-> Some(value)], result |-> Ok(<<>>)]
    ELSE [cell |-> cell, result |-> Err(value)]

AlreadyInitialized == \* "Bug reporting already initialized"
    <<66, 117, 103, 32, 114, 101, 112, 111, 114, 116, 105, 110, 103, 32, 97,
      108, 114, 101, 97, 100, 121, 32, 105, 110, 105, 116, 105, 97, 108, 105,
      122, 101, 100>>

NotInitialized == \* "Bug reporting not initialized. Call bug_rs::init() first."
    <<66, 117, 103, 32, 114, 101, 112, 111, 114, 116, 105, 110, 103, 32, 110,
      111, 116, 32, 105, 110, 105, 116, 105, 97, 108, 105, 122, 101, 100, 46,
      32, 67, 97, 108, 108, 32, 98, 117, 103, 95, 114, 115, 58, 58, 105,
      110, 105, 116, 40, 41, 32, 102, 105, 114, 115, 116, 46>>

\* OnceCell::set step by step, as concurrent callers go through it.  The
\* caller that finds the cell INCOMPLETE makes it RUNNING in one atomic
\* compare-and-swap; it alone then stores the value, by a plain write that is
\* not atomic (here: the owner and the repo, then the rest), and makes the
\* cell COMPLETE.  Every other caller waits for COMPLETE and gets Err(value).
OnceCell_try_claim(cell) ==
    IF cell.state = "INCOMPLETE"
    THEN [cell |-> [cell EXCEPT !.state = "RUNNING"], claimed |-> TRUE]
    ELSE [cell |-> cell, claimed |-> FALSE]

\* the memory of the slot, field by field, before anything is written to it
Unwritten ==
    [github_owner |-> <<>>, github_repo |-> <<>>, templates |-> EmptyMap,
     template_files |-> EmptyMap, use_hyperlinks |-> "unwritten"]

\* what the memory of the slot holds
SlotFields(slot) == IF "value" \in DOMAIN slot THEN slot.value ELSE Unwritten

slot_write_head(slot, config) ==
    [some |-> slot.some,
     value |-> [SlotFields(slot) EXCEPT !.github_owner = config.github_owner,
                                        !.github_repo = config.github_repo]]

slot_write_rest(slot, config) ==
    [some |-> TRUE,
     value |-> [SlotFields(slot) EXCEPT !.templates = config.templates,
                                        !.template_files = config.template_files,
                                        !.use_hyperlinks = config.use_hyperlinks]]

OnceCell_publish(cell) == [cell EXCEPT !.state = "COMPLETE"]

\* a build that returns Ok(()) whatever set returned
map_err_swallowed(result) == Ok(<<>>)

\* `.map_err(|_| "Bug reporting already initialized")`
map_err_already(result) ==
    IF result.ok THEN Ok(<<>>) ELSE Err(AlreadyInitialized)

\* a build that stores its configuration whatever the cell holds
build_overwrite(config, cell) ==
    [cell |-> [state |-> "COMPLETE", slot |-> Some(config)], result |-> Ok(<<>>)]

\* BugReportConfigBuilder::build (std): the cell after it and what it returns
build(config, cell) ==
    LET set == OnceCell_set(cell, config)
    IN  [cell |-> set.cell, result |-> map_err_already(set.result)]

(***************************************************************************)
(* generate_github_url, get_hyperlink_mode (std)                           *)
(***************************************************************************)
Global_lookup(config, template_name, params) ==
    IF template_name \in DOMAIN config.templates
    THEN Ok(fill_params(config.templates[template_name], params))
    ELSE IF template_name \in DOMAIN config.template_files
    THEN from_template_file(config.template_files[template_name], params)
    ELSE Err(TemplateQuote \o template_name \o QuoteNotFound)

\* the pushes with the body before the title
Global_query_params_body_first(filled_template) ==
    (IF filled_template.body # <<>>
     THEN <<BodyEq \o encode(filled_template.body)>> ELSE <<>>)
    \o (IF filled_template.title # <<>>
        THEN <<TitleEq \o encode(filled_template.title)>> ELSE <<>>)
    \o (IF filled_template.labels # <<>>
        THEN <<LabelsEq \o encode(join(filled_template.labels, <<44>>))>> ELSE <<>>)

Global_query_params(filled_template) ==
    (IF filled_template.title # <<>>
     THEN <<TitleEq \o encode(filled_template.title)>> ELSE <<>>)
    \o (IF filled_template.body # <<>>
        THEN <<BodyEq \o encode(filled_template.body)>> ELSE <<>>)
    \o (IF filled_template.labels # <<>>
        THEN <<LabelsEq \o encode(join(filled_template.labels, <<44>>))>> ELSE <<>>)

\* generate_github_url, given what CONFIG.get() returned
generate_github_url_with(got, template_name, params) ==
    IF ~got.some THEN Err(NotInitialized)               \* .ok_or(..)?
    ELSE LET config == got.value
             filled_template == Global_lookup(config, template_name, params)
         IN  IF ~filled_template.ok THEN filled_template
             ELSE LET url == GithubCom \o config.github_owner \o <<47>>
                             \o config.github_repo \o IssuesNew
                      query_params == Global_query_params(filled_template.val)
                  IN  IF query_params # <<>>
                      THEN Ok(url \o <<63>> \o join(query_params, <<38>>))
                      ELSE Ok(url)

generate_github_url(cell, template_name, params) ==
    generate_github_url_with(OnceCell_get(cell), template_name, params)

\* a get_hyperlink_mode that falls back to the default policy of a builder
get_hyperlink_mode_with_auto(got) ==
    IF got.some THEN got.value.use_hyperlinks ELSE "Auto"

\* get_hyperlink_mode, given what CONFIG.get() returned
get_hyperlink_mode_with(got) ==
    IF got.some THEN got.value.use_hyperlinks ELSE "Never"

get_hyperlink_mode(cell) == get_hyperlink_mode_with(OnceCell_get(cell))

(***************************************************************************)
(* SpecEncode: encode applied to an input, then to its own output.         *)
(***************************************************************************)
\* bytes on both sides of every boundary of the match arms, the bytes the
\* encoder itself emits ('%', '+', hex digits) and UTF-8 lead/continuation
\* bytes
EncAlphabet == {32, 37, 43, 47, 48, 57, 65, 70, 97, 122, 126, 169, 195}

EncInputs == SeqsUpTo(EncAlphabet, MaxEncLen) \cup {<<b>> : b \in 0..255}

\* the state of a program that has created no builder and no handle
NoHistory == [none |-> TRUE]

ProgIdle ==
    /\ holder = None
    /\ CONFIG = OnceCell_new
    /\ hist = NoHistory

\* no handle object, no thread
HeapIdle == store = <<>> /\ handles = <<>>

ThreadsIdle == pc = <<>> /\ ret = <<>>

\* the program has no output of its own
IoIdle == sink = NoOutput

InitEncode ==
    /\ stage = "input"
    /\ arg \in {[input |-> s] : s \in EncInputs}
    /\ res = [none |-> TRUE]
    /\ ProgIdle
    /\ HeapIdle
    /\ ThreadsIdle
    /\ IoIdle

Encode ==
    /\ stage = "input"
    /\ stage' = "encoded"
    /\ UNCHANGED <<heapVars, threadVars, ioVars>>
    /\ res' = [output |-> encode(arg.input)]
    /\ UNCHANGED <<arg, progVars>>

EncodeAgain ==
    /\ stage = "encoded"
    /\ stage' = "reencoded"
    /\ UNCHANGED <<heapVars, threadVars, ioVars>>
    /\ res' = [output |-> res.output, output2 |-> encode(res.output)]
    /\ UNCHANGED <<arg, progVars>>

NextEncode == Encode \/ EncodeAgain

SpecEncode == InitEncode /\ [][NextEncode]_vars

(***************************************************************************)
(* Claims about encode.                                                    *)
(***************************************************************************)
UnreservedChars == (65..90) \cup (97..122) \cup (48..57) \cup {45, 46, 95, 126}

UpperHexDigits == (48..57) \cup (65..70)

HexValue(d) == IF d <= 57 THEN d - 48 ELSE d - 55

\* the number of output characters the claim gives to one input byte
ImageWidth(b) == IF b \in UnreservedChars \cup {32} THEN 1 ELSE 3

\* where the image of byte i of s starts in the output (0-based)
RECURSIVE ImageOffset(_, _)
ImageOffset(s, i) ==
    IF i = 1 THEN 0 ELSE ImageOffset(s, i - 1) + ImageWidth(s[i - 1])

C10_Idempotent ==
    stage = "reencoded" => res.output2 = res.output

\* C10 as amended: encode(encode(s)) = encode(s) exactly when s is made only
\* of unreserved characters; any other byte (a space included) puts a '+' or
\* a '%' in the output, which the second application escapes.
C10_IdempotentOnUnreservedOnly ==
    stage = "reencoded" =>
        ((res.output2 = res.output) <=> (Range(arg.input) \subseteq UnreservedChars))

C10_Witness ==
    /\ stage = "reencoded"
    /\ arg.input = <<97, 126>>
    /\ res.output2 = res.output

(***************************************************************************)
(* SpecTemplate: the functions of a template file applied to a content     *)
(* and a parameter set.                                                    *)
(***************************************************************************)
\* "{", "}", "a", " ", "{a}", "{b}", "{a_1}"
TplTokens ==
    {<<123>>, <<125>>, <<97>>, <<32>>,
     <<123, 97, 125>>, <<123, 98, 125>>, <<123, 97, 95, 49, 125>>}

\* template texts: up to MaxTokens tokens, concatenated
TplContents == {join(ts, <<>>) : ts \in SeqsUpTo(TplTokens, MaxTokens)}

\* the maps with keys in K and values in V, in every iteration order
ParamSets(K, V) ==
    {p \in SeqsUpTo([key : K, value : V], Cardinality(K)) :
        \A i, j \in 1..Len(p) : i # j => p[i].key # p[j].key}

\* keys "a", "b"; value "x"
TplParams == ParamSets({<<97>>, <<98>>}, {<<120>>})

InitTemplate ==
    /\ stage = "input"
    /\ arg \in {[template_file |-> [content |-> c, labels |-> <<>>], params |-> p] :
                    c \in TplContents, p \in TplParams}
    /\ res = [none |-> TRUE]
    /\ ProgIdle
    /\ HeapIdle
    /\ ThreadsIdle
    /\ IoIdle

ExtractPlaceholders ==
    /\ stage = "input"
    /\ stage' = "extracted"
    /\ UNCHANGED <<heapVars, threadVars, ioVars>>
    /\ res' = [placeholders |-> extract_placeholders(arg.template_file.content)]
    /\ UNCHANGED <<arg, progVars>>

ValidateParams ==
    /\ stage = "input"
    /\ stage' = "validated"
    /\ UNCHANGED <<heapVars, threadVars, ioVars>>
    /\ res' = [result |-> validate_params(arg.template_file, arg.params)]
    /\ UNCHANGED <<arg, progVars>>

NextTemplate == ExtractPlaceholders \/ ValidateParams

SpecTemplate == InitTemplate /\ [][NextTemplate]_vars

(***************************************************************************)
(* Claims about extract_placeholders and validate_params.                  *)
(***************************************************************************)
IsNameChar(c) == c \in (48..57) \cup (65..90) \cup (97..122) \cup {95}

\* s[i..j] is a well-formed token: '{', one or more name characters, '}'
WellFormedToken(s, i, j) ==
    /\ s[i] = 123
    /\ j > i + 1
    /\ j <= Len(s)
    /\ s[j] = 125
    /\ \A k \in (i + 1)..(j - 1) : IsNameChar(s[k])

TokenStarts(s) == {i \in 1..Len(s) : \E j \in 1..Len(s) : WellFormedToken(s, i, j)}

TokenName(s, i) ==
    LET j == CHOOSE j \in 1..Len(s) : WellFormedToken(s, i, j)
    IN  SubSeq(s, i + 1, j - 1)

\* the names of the tokens that start in `starts`, in order of first
\* occurrence, each once
RECURSIVE FirstOccurrences(_, _, _, _)
FirstOccurrences(s, starts, i, acc) ==
    IF i > Len(s) THEN acc
    ELSE IF i \in starts /\ ~Contains(acc, TokenName(s, i))
    THEN FirstOccurrences(s, starts, i + 1, Append(acc, TokenName(s, i)))
    ELSE FirstOccurrences(s, starts, i + 1, acc)

\* the '{' before position i that is followed by name characters only up to
\* i: the brace group still open at i, if any
OpenGroupAt(s, i) ==
    {k \in 1..(i - 1) : s[k] = 123 /\ \A m \in (k + 1)..(i - 1) : IsNameChar(s[m])}

\* a '{' opens a brace group unless it stands inside a group that is still
\* open, which it aborts
RECURSIVE OpensGroup(_, _)
OpensGroup(s, i) ==
    /\ s[i] = 123
    /\ \A k \in OpenGroupAt(s, i) : ~OpensGroup(s, k)

\* C3 as stated: extract_placeholders returns each distinct well-formed
\* {name} token of the text exactly once, in order of first occurrence.
C3_EveryWellFormedToken ==
    stage = "extracted" =>
        LET s == arg.template_file.content
        IN  res.placeholders = FirstOccurrences(s, TokenStarts(s), 1, <<>>)

\* C3 as amended: extract_placeholders returns, exactly once and in order of
\* first occurrence, each distinct well-formed {name} token whose '{' is not
\* the character that aborts a brace group still open before it ("{a{b}" and
\* "{{b}" yield nothing); no returned name is empty or comes from an
\* unterminated or partially formed group.
C3_TokensOfOpeningBraces ==
    stage = "extracted" =>
        LET s == arg.template_file.content
            opened == {i \in TokenStarts(s) : OpensGroup(s, i)}
        IN  /\ res.placeholders = FirstOccurrences(s, opened, 1, <<>>)
            /\ \A n \in 1..Len(res.placeholders) :
                 /\ res.placeholders[n] # <<>>
                 /\ \E i \in TokenStarts(s) : TokenName(s, i) = res.placeholders[n]
                 /\ \A m \in 1..Len(res.placeholders) :
                      res.placeholders[m] = res.placeholders[n] => m = n

\* "{b}{a}{b}" yields <<"b", "a">>
C3_Witness ==
    /\ stage = "extracted"
    /\ arg.template_file.content = <<123, 98, 125, 123, 97, 125, 123, 98, 125>>
    /\ res.placeholders = <<(<<98>>), (<<97>>)>>

\* a parameter set without its i-th entry
WithoutEntry(params, i) ==
    SubSeq(params, 1, i - 1) \o SubSeq(params, i + 1, Len(params))

\* C2: validate_params returns Ok exactly when the set of parameter keys
\* equals the set of extracted placeholder names; from an accepted set,
\* removing any key, or adding any key that is not a placeholder, gives an
\* error.
C2_ValidateExactSet ==
    stage = "validated" =>
        LET tf == arg.template_file
            names == Range(extract_placeholders(tf.content))
        IN  /\ res.result.ok <=> (KeySet(arg.params) = names)
            /\ res.result.ok =>
                 /\ \A i \in 1..Len(arg.params) :
                      ~validate_params(tf, WithoutEntry(arg.params, i)).ok
                 /\ \A k \in {<<97>>, <<98>>, <<99>>} \ names :
                      ~validate_params(tf,
                            Append(arg.params, [key |-> k, value |-> <<120>>])).ok

\* "{b}{a}" with {b: x, a: x} is accepted
C2_Witness ==
    /\ stage = "validated"
    /\ res.result.ok
    /\ Len(arg.params) = 2
    /\ KeySet(arg.params) = Range(extract_placeholders(arg.template_file.content))

(***************************************************************************)
(* Spec: a single-threaded program.  It creates builders (init) and        *)
(* handles (init_handle), registers templates and template files, sets     *)
(* the hyperlink policy, commits a builder with build(), and generates     *)
(* URLs from a handle (generate_url) or from the global configuration      *)
(* (generate_github_url).  It holds one builder or handle at a time.       *)
(***************************************************************************)
Names == {<<116>>, <<117>>}                 \* template names "t", "u"

Owner == <<111>>                            \* "o"

Repo == <<114>>                             \* "r"

HyperlinkModes == {"Auto", "Always", "Never"}

\* IssueTemplate::new("{a}", "{b}").with_labels(vec!["l", "m,"])
TemplateAB ==
    [title |-> <<123, 97, 125>>, body |-> <<123, 98, 125>>,
     labels |-> <<(<<108>>), (<<109, 44>>)>>]

\* IssueTemplate::new("{a}", "")
TemplateA == [title |-> <<123, 97, 125>>, body |-> <<>>, labels |-> <<>>]

InlineTemplates == {TemplateAB, TemplateA}

\* template_file!(..) with content "T{a}\n{b}" and labels ["l"]
FileAB ==
    [content |-> <<84, 123, 97, 125, 10, 123, 98, 125>>, labels |-> <<(<<108>>)>>]

\* a template file with empty content
FileEmpty == [content |-> <<>>, labels |-> <<>>]

TemplateFiles == {FileAB, FileEmpty}

\* the parameter sets over the keys "a", "b" with the value "x y", and two
\* with empty values
CallParams ==
    ParamSets({<<97>>, <<98>>}, {<<120, 32, 121>>})
    \cup {<<[key |-> <<97>>, value |-> <<>>]>>,
          <<[key |-> <<97>>, value |-> <<>>], [key |-> <<98>>, value |-> <<>>]>>}

NoArgs == [none |-> TRUE]

NoResult == [none |-> TRUE]

NothingRegistered == [n \in Names |-> None]

Init ==
    /\ stage = "start"
    /\ arg = NoArgs
    /\ res = NoResult
    /\ holder = None
    /\ CONFIG = OnceCell_new
    /\ hist = [inline |-> NothingRegistered, file |-> NothingRegistered,
               ops |-> 0, inits |-> 0, builds |-> 0, first |-> None]
    /\ HeapIdle
    /\ ThreadsIdle
    /\ IoIdle

\* init(owner, repo): a new builder
init ==
    /\ hist.inits < MaxInits
    /\ holder' = Some([kind |-> "builder",
                       config |-> BugReportConfig_new(Owner, Repo)])
    /\ hist' = [hist EXCEPT !.inline = NothingRegistered, !.file = NothingRegistered,
                            !.inits = @ + 1]
    /\ stage' = "init"
    /\ UNCHANGED <<heapVars, threadVars, ioVars>>
    /\ arg' = NoArgs
    /\ res' = NoResult
    /\ UNCHANGED CONFIG

\* init_handle(owner, repo): a new handle
init_handle ==
    /\ hist.inits < MaxInits
    /\ holder' = Some([kind |-> "handle",
                       config |-> BugReportConfig_new(Owner, Repo)])
    /\ hist' = [hist EXCEPT !.inline = NothingRegistered, !.file = NothingRegistered,
                            !.inits = @ + 1]
    /\ stage' = "init_handle"
    /\ UNCHANGED <<heapVars, threadVars, ioVars>>
    /\ arg' = NoArgs
    /\ res' = NoResult
    /\ UNCHANGED CONFIG

\* builder.add_template(name, template) or handle.add_template(name, template)
add_template(name, template) ==
    /\ holder.some
    /\ hist.ops < MaxOps
    /\ holder' = Some([holder.value EXCEPT !.config =
            IF holder.value.kind = "builder"
            THEN Builder_add_template(@, name, template)
            ELSE Handle_add_template(@, name, template)])
    /\ hist' = [hist EXCEPT !.inline[name] = Some(template), !.ops = @ + 1]
    /\ stage' = "add_template"
    /\ UNCHANGED <<heapVars, threadVars, ioVars>>
    /\ arg' = NoArgs
    /\ res' = NoResult
    /\ UNCHANGED CONFIG

add_template_file(name, template_file) ==
    /\ holder.some
    /\ hist.ops < MaxOps
    /\ holder' = Some([holder.value EXCEPT !.config =
            IF holder.value.kind = "builder"
            THEN Builder_add_template_file(@, name, template_file)
            ELSE Handle_add_template_file(@, name, template_file)])
    /\ hist' = [hist EXCEPT !.file[name] = Some(template_file), !.ops = @ + 1]
    /\ stage' = "add_template_file"
    /\ UNCHANGED <<heapVars, threadVars, ioVars>>
    /\ arg' = NoArgs
    /\ res' = NoResult
    /\ UNCHANGED CONFIG

hyperlinks(mode) ==
    /\ holder.some
    /\ hist.ops < MaxOps
    /\ holder' = Some([holder.value EXCEPT !.config =
            IF holder.value.kind = "builder"
            THEN Builder_hyperlinks(@, mode)
            ELSE Handle_hyperlinks(@, mode)])
    /\ hist' = [hist EXCEPT !.ops = @ + 1]
    /\ stage' = "hyperlinks"
    /\ UNCHANGED <<heapVars, threadVars, ioVars>>
    /\ arg' = NoArgs
    /\ res' = NoResult
    /\ UNCHANGED CONFIG

\* builder.build(): the builder is consumed
Build ==
    /\ holder.some
    /\ holder.value.kind = "builder"
    /\ LET b == build(holder.value.config, CONFIG)
       IN  /\ CONFIG' = b.cell
           /\ res' = b.result
    /\ hist' = [hist EXCEPT !.builds = @ + 1,
                            !.first = IF hist.builds = 0
                                      THEN Some(holder.value.config) ELSE @]
    /\ holder' = None
    /\ stage' = "build"
    /\ UNCHANGED <<heapVars, threadVars, ioVars>>
    /\ arg' = NoArgs

\* handle.generate_url(template_name, params)
GenerateUrl(template_name, params) ==
    /\ holder.some
    /\ holder.value.kind = "handle"
    /\ stage' = "generate_url"
    /\ UNCHANGED <<heapVars, threadVars, ioVars>>
    /\ arg' = [template_name |-> template_name, params |-> params]
    /\ res' = generate_url(holder.value.config, template_name, params)
    /\ UNCHANGED progVars

GenerateGithubUrl(template_name, params) ==
    /\ stage' = "generate_github_url"
    /\ UNCHANGED <<heapVars, threadVars, ioVars>>
    /\ arg' = [template_name |-> template_name, params |-> params]
    /\ res' = generate_github_url(CONFIG, template_name, params)
    /\ UNCHANGED progVars

GetHyperlinkMode ==
    /\ stage' = "get_hyperlink_mode"
    /\ UNCHANGED <<heapVars, threadVars, ioVars>>
    /\ arg' = NoArgs
    /\ res' = [mode |-> get_hyperlink_mode(CONFIG)]
    /\ UNCHANGED progVars

Next ==
    \/ init
    \/ init_handle
    \/ \E n \in Names, t \in InlineTemplates : add_template(n, t)
    \/ \E n \in Names, f \in TemplateFiles : add_template_file(n, f)
    \/ \E m \in HyperlinkModes : hyperlinks(m)
    \/ Build
    \/ \E n \in Names, p \in CallParams : GenerateUrl(n, p)
    \/ \E n \in Names, p \in CallParams : GenerateGithubUrl(n, p)
    \/ GetHyperlinkMode

Spec == Init /\ [][Next]_vars

(***************************************************************************)
(* Claims about the program: the URL format, the lookup order, the         *)
(* not-found error, the set-once global configuration.                     *)
(***************************************************************************)
\* the map s -> encode(s) over a list of strings
EncodeEach(strs) == [i \in 1..Len(strs) |-> encode(strs[i])]

\* C1: a URL returned by generate_url is the base URL of the repository,
\* followed by nothing when the filled title, the filled body and the label
\* list are all empty, and otherwise by "?" and the present parameters among
\* title=, body=, labels=, in this order, joined by "&"; each value is
\* encoded, and the labels are joined so that their separator reads %2C.
C1_UrlFormat ==
    (stage = "generate_url" /\ res.ok) =>
        LET config == holder.value.config
            name == arg.template_name
            filled == IF name \in DOMAIN config.templates
                      THEN fill_params(config.templates[name], arg.params)
                      ELSE from_template_file(config.template_files[name], arg.params).val
            hasTitle == filled.title # <<>>
            hasBody == filled.body # <<>>
            hasLabels == filled.labels # <<>>
            base == <<104, 116, 116, 112, 115, 58, 47, 47, 103, 105, 116, 104,
                      117, 98, 46, 99, 111, 109, 47>>
                    \o config.github_owner \o <<47>> \o config.github_repo
                    \o <<47, 105, 115, 115, 117, 101, 115, 47, 110, 101, 119>>
            title == IF hasTitle
                     THEN <<116, 105, 116, 108, 101, 61>> \o encode(filled.title)
                     ELSE <<>>
            body == IF hasBody
                    THEN <<98, 111, 100, 121, 61>> \o encode(filled.body)
                    ELSE <<>>
            labels == IF hasLabels
                      THEN <<108, 97, 98, 101, 108, 115, 61>>
                           \o join(EncodeEach(filled.labels), <<37, 50, 67>>)
                      ELSE <<>>
            amp1 == IF hasTitle /\ (hasBody \/ hasLabels) THEN <<38>> ELSE <<>>
            amp2 == IF hasBody /\ hasLabels THEN <<38>> ELSE <<>>
        IN  res.val = IF ~hasTitle /\ ~hasBody /\ ~hasLabels
                      THEN base
                      ELSE base \o <<63>> \o title \o amp1 \o body \o amp2 \o labels

\* ".../o/r/issues/new?title=x+y&body=x+y&labels=l%2Cm%2C"
C1_Witness ==
    /\ stage = "generate_url"
    /\ res = Ok(<<104, 116, 116, 112, 115, 58, 47, 47, 103, 105, 116, 104, 117,
                  98, 46, 99, 111, 109, 47, 111, 47, 114, 47, 105, 115, 115, 117,
                  101, 115, 47, 110, 101, 119, 63, 116, 105, 116, 108, 101, 61,
                  120, 43, 121, 38, 98, 111, 100, 121, 61, 120, 43, 121, 38, 108,
                  97, 98, 101, 108, 115, 61, 108, 37, 50, 67, 109, 37, 50, 67>>)

\* the configuration of the handle with, under `name`, only the template
\* that the claim says the name resolves to
ResolvedOnly(config, name) ==
    [config EXCEPT
       !.templates = IF hist.inline[name].some
                     THEN (name :> hist.inline[name].value) ELSE EmptyMap,
       !.template_files = IF ~hist.inline[name].some /\ hist.file[name].some
                          THEN (name :> hist.file[name].value) ELSE EmptyMap]

\* C4: generate_url resolves a name to the inline template registered last
\* under it if there is one, and only otherwise to the template file
\* registered last under it; with the name in both maps the inline template
\* wins, the call cannot fail, and the result is the one obtained without
\* the file-backed entry.
C4_InlineFirst ==
    stage = "generate_url" =>
        LET config == holder.value.config
            name == arg.template_name
        IN  /\ res = generate_url(ResolvedOnly(config, name), name, arg.params)
            /\ hist.inline[name].some =>
                 /\ res.ok
                 /\ res = generate_url([config EXCEPT !.template_files = EmptyMap],
                                       name, arg.params)

\* the name is registered in both maps, the file-backed entry would reject
\* the parameters, and the call succeeds
C4_Witness ==
    /\ stage = "generate_url"
    /\ hist.inline[arg.template_name].some
    /\ hist.file[arg.template_name].some
    /\ ~from_template_file(hist.file[arg.template_name].value, arg.params).ok
    /\ res.ok

\* C5: for a name that is a key of neither map, generate_url and (with the
\* global configuration initialized) generate_github_url return the error
\* "Template '<name>' not found", whatever the parameters.
C5_NotFound ==
    stage \in {"generate_url", "generate_github_url"} =>
        LET got == IF stage = "generate_url"
                   THEN Some(holder.value.config)
                   ELSE OnceCell_get(CONFIG)
        IN  (/\ got.some
             /\ arg.template_name \notin DOMAIN got.value.templates
             /\ arg.template_name \notin DOMAIN got.value.template_files)
            => res = Err(<<84, 101, 109, 112, 108, 97, 116, 101, 32, 39>>
                         \o arg.template_name
                         \o <<39, 32, 110, 111, 116, 32, 102, 111, 117, 110, 100>>)

\* the global configuration holds a template, the name asked for is another
C5_Witness ==
    /\ stage = "generate_github_url"
    /\ OnceCell_get(CONFIG).some
    /\ DOMAIN OnceCell_get(CONFIG).value.templates # {}
    /\ arg.template_name \notin DOMAIN OnceCell_get(CONFIG).value.templates
    /\ arg.template_name \notin DOMAIN OnceCell_get(CONFIG).value.template_files
    /\ arg.params # <<>>
    /\ ~res.ok

\* C6: the first build() returns Ok and every later one returns the error
\* "Bug reporting already initialized"; from the first build() on, the global
\* configuration is the configuration of that first build().
C6_SetOnce ==
    /\ stage = "build" =>
         IF hist.builds = 1
         THEN res = Ok(<<>>)
         ELSE res = Err(<<66, 117, 103, 32, 114, 101, 112, 111, 114, 116, 105,
                          110, 103, 32, 97, 108, 114, 101, 97, 100, 121, 32, 105,
                          110, 105, 116, 105, 97, 108, 105, 122, 101, 100>>)
    /\ hist.builds >= 1 => OnceCell_get(CONFIG) = Some(hist.first.value)
    /\ hist.builds = 0 => ~OnceCell_get(CONFIG).some

\* a second build() has failed and the first configuration, which holds a
\* template, is still the global one
C6_Witness ==
    /\ stage = "build"
    /\ hist.builds = 2
    /\ ~res.ok
    /\ OnceCell_get(CONFIG) = Some(hist.first.value)
    /\ DOMAIN hist.first.value.templates # {}

(***************************************************************************)
(* SpecClone: a program that creates a handle, duplicates handles, and     *)
(* configures each of them.  A handle is the address of the configuration  *)
(* object it owns; the methods take `mut self` and change that object.     *)
(***************************************************************************)
InitClone ==
    /\ stage = "init_handle"
    /\ arg = NoArgs
    /\ res = NoResult
    /\ holder = None
    /\ CONFIG = OnceCell_new
    /\ hist = [ops |-> 0]
    /\ store = <<BugReportConfig_new(Owner, Repo)>>
    /\ handles = <<1>>
    /\ ThreadsIdle
    /\ IoIdle

\* handles[h].clone()
CloneHandle(h) ==
    /\ Len(handles) < MaxHandles
    /\ LET copy == Handle_clone(store, handles[h])
       IN  /\ store' = copy.store
           /\ handles' = Append(handles, copy.addr)
    /\ stage' = "clone"
    /\ arg' = [handle |-> h]
    /\ UNCHANGED <<res, holder, CONFIG, hist, threadVars, ioVars>>

CopyAddTemplate(h, name, template) ==
    /\ hist.ops < MaxOps
    /\ store' = [store EXCEPT ![handles[h]] = Handle_add_template(@, name, template)]
    /\ hist' = [hist EXCEPT !.ops = @ + 1]
    /\ stage' = "add_template"
    /\ arg' = [handle |-> h]
    /\ UNCHANGED <<res, holder, CONFIG, handles, threadVars, ioVars>>

CopyAddTemplateFile(h, name, template_file) ==
    /\ hist.ops < MaxOps
    /\ store' = [store EXCEPT ![handles[h]] =
                    Handle_add_template_file(@, name, template_file)]
    /\ hist' = [hist EXCEPT !.ops = @ + 1]
    /\ stage' = "add_template_file"
    /\ arg' = [handle |-> h]
    /\ UNCHANGED <<res, holder, CONFIG, handles, threadVars, ioVars>>

CopyHyperlinks(h, mode) ==
    /\ hist.ops < MaxOps
    /\ store' = [store EXCEPT ![handles[h]] = Handle_hyperlinks(@, mode)]
    /\ hist' = [hist EXCEPT !.ops = @ + 1]
    /\ stage' = "hyperlinks"
    /\ arg' = [handle |-> h]
    /\ UNCHANGED <<res, holder, CONFIG, handles, threadVars, ioVars>>

NextClone ==
    \/ \E h \in 1..Len(handles) : CloneHandle(h)
    \/ \E h \in 1..Len(handles), n \in Names, t \in InlineTemplates :
            CopyAddTemplate(h, n, t)
    \/ \E h \in 1..Len(handles), n \in Names, f \in TemplateFiles :
            CopyAddTemplateFile(h, n, f)
    \/ \E h \in 1..Len(handles), m \in HyperlinkModes : CopyHyperlinks(h, m)

SpecClone == InitClone /\ [][NextClone]_vars

\* the configuration seen through handle h
ConfigOf(h) == store[handles[h]]

\* C8: add_template, add_template_file and hyperlinks applied to one handle
\* leave the configuration (templates, template files, owner, repo, policy)
\* of every other handle unchanged; clone() leaves every existing handle
\* unchanged and gives the copy the configuration of its original.
C8_CopiesIndependent ==
    [][ /\ stage' \in {"add_template", "add_template_file", "hyperlinks"} =>
             \A o \in 1..Len(handles) :
                 o # arg'.handle => store'[handles'[o]] = store[handles[o]]
        /\ stage' = "clone" =>
             /\ \A o \in 1..Len(handles) : store'[handles'[o]] = store[handles[o]]
             /\ store'[handles'[Len(handles')]] = store[handles[arg'.handle]]
      ]_vars

\* the copy got a template and a policy, the original has neither
C8_Witness ==
    /\ Len(handles) = 2
    /\ stage \in {"add_template", "hyperlinks"}
    /\ arg.handle = 2
    /\ DOMAIN ConfigOf(2).templates # {}
    /\ ConfigOf(2).use_hyperlinks = "Never"
    /\ ConfigOf(1) = BugReportConfig_new(Owner, Repo)

(***************************************************************************)
(* SpecConcurrent: NThreads threads call build() at the same time, each    *)
(* on a builder of its own, while the program reads the global             *)
(* configuration through generate_github_url and get_hyperlink_mode.       *)
(***************************************************************************)
Threads == 1..NThreads

\* the builder of thread t:
\* init(owner_t, "r").add_template("t", ..).hyperlinks(..)
ThreadConfig(t) ==
    Builder_hyperlinks(
        Builder_add_template(BugReportConfig_new(<<96 + t>>, Repo), <<116>>,
                             IF t % 2 = 1 THEN TemplateA ELSE TemplateAB),
        IF t % 2 = 1 THEN "Always" ELSE "Never")

InitConcurrent ==
    /\ stage = "start"
    /\ arg = NoArgs
    /\ res = NoResult
    /\ ProgIdle
    /\ HeapIdle
    /\ pc = [t \in Threads |-> "start"]
    /\ ret = [t \in Threads |-> NoResult]
    /\ IoIdle

\* build() enters CONFIG.set: the compare-and-swap on the state of the cell
SetClaim(t) ==
    /\ pc[t] = "start"
    /\ LET c == OnceCell_try_claim(CONFIG)
       IN  /\ CONFIG' = c.cell
           /\ pc' = [pc EXCEPT ![t] = IF c.claimed THEN "write_head" ELSE "wait"]
    /\ UNCHANGED <<callVars, holder, hist, heapVars, ret, ioVars>>

SetWriteHead(t) ==
    /\ pc[t] = "write_head"
    /\ CONFIG' = [CONFIG EXCEPT !.slot = slot_write_head(@, ThreadConfig(t))]
    /\ pc' = [pc EXCEPT ![t] = "write_rest"]
    /\ UNCHANGED <<callVars, holder, hist, heapVars, ret, ioVars>>

SetWriteRest(t) ==
    /\ pc[t] = "write_rest"
    /\ CONFIG' = [CONFIG EXCEPT !.slot = slot_write_rest(@, ThreadConfig(t))]
    /\ pc' = [pc EXCEPT ![t] = "publish"]
    /\ UNCHANGED <<callVars, holder, hist, heapVars, ret, ioVars>>

SetPublish(t) ==
    /\ pc[t] = "publish"
    /\ CONFIG' = OnceCell_publish(CONFIG)
    /\ pc' = [pc EXCEPT ![t] = "return_ok"]
    /\ UNCHANGED <<callVars, holder, hist, heapVars, ret, ioVars>>

\* a caller that did not claim the cell waits until the cell is COMPLETE
SetWait(t) ==
    /\ pc[t] = "wait"
    /\ CONFIG.state = "COMPLETE"
    /\ pc' = [pc EXCEPT ![t] = "return_err"]
    /\ UNCHANGED <<callVars, progVars, heapVars, ret, ioVars>>

\* build() returns what set returned, through map_err
BuildReturn(t) ==
    /\ pc[t] \in {"return_ok", "return_err"}
    /\ ret' = [ret EXCEPT ![t] =
                 map_err_already(IF pc[t] = "return_ok"
                                 THEN Ok(<<>>) ELSE Err(ThreadConfig(t)))]
    /\ pc' = [pc EXCEPT ![t] = "done"]
    /\ UNCHANGED <<callVars, progVars, heapVars, ioVars>>

\* a reader enters CONFIG.get(): it loads the state of the cell; an empty or
\* RUNNING cell gives None at once
ReadBegin(op, template_name, params) ==
    /\ stage \in {"start", "read"}
    /\ arg' = [op |-> op, template_name |-> template_name, params |-> params]
    /\ IF CONFIG.state = "COMPLETE"
       THEN /\ stage' = "deref"
            /\ UNCHANGED res
       ELSE /\ stage' = "read"
            /\ res' = [got |-> None,
                       out |-> IF op = "get_hyperlink_mode"
                               THEN get_hyperlink_mode_with(None)
                               ELSE generate_github_url_with(None, template_name, params)]
    /\ UNCHANGED <<progVars, heapVars, threadVars, ioVars>>

\* CONFIG.get() of a COMPLETE cell: the reader takes the value in the slot
ReadDeref ==
    /\ stage = "deref"
    /\ stage' = "read"
    /\ res' = [got |-> CONFIG.slot,
               out |-> IF arg.op = "get_hyperlink_mode"
                       THEN get_hyperlink_mode_with(CONFIG.slot)
                       ELSE generate_github_url_with(CONFIG.slot, arg.template_name,
                                                     arg.params)]
    /\ UNCHANGED <<arg, progVars, heapVars, threadVars, ioVars>>

NextConcurrent ==
    \/ \E t \in Threads : SetClaim(t)
    \/ \E t \in Threads : SetWriteHead(t)
    \/ \E t \in Threads : SetWriteRest(t)
    \/ \E t \in Threads : SetPublish(t)
    \/ \E t \in Threads : SetWait(t)
    \/ \E t \in Threads : BuildReturn(t)
    \/ \E n \in Names : ReadBegin("generate_github_url", n, <<>>)
    \/ ReadBegin("get_hyperlink_mode", <<>>, <<>>)
    \/ ReadDeref

SpecConcurrent == InitConcurrent /\ [][NextConcurrent]_vars

Returned(t) == ret[t] # NoResult

\* C7: of the concurrent build() calls at most one returns Ok, exactly one
\* once all have returned, and the others return the already-initialized
\* error; a reader gets either nothing (not-initialized error, policy Never)
\* or the complete configuration of the one call that returns Ok.
C7_OneWinnerNoPartialRead ==
    /\ \A t, u \in Threads :
         (Returned(t) /\ Returned(u) /\ ret[t].ok /\ ret[u].ok) => t = u
    /\ \A t \in Threads :
         (Returned(t) /\ ~ret[t].ok) =>
             ret[t].val = <<66, 117, 103, 32, 114, 101, 112, 111, 114, 116, 105,
                            110, 103, 32, 97, 108, 114, 101, 97, 100, 121, 32,
                            105, 110, 105, 116, 105, 97, 108, 105, 122, 101, 100>>
    /\ (\A t \in Threads : Returned(t)) => \E t \in Threads : ret[t].ok
    /\ stage = "read" =>
         \/ /\ res.got = None
            /\ arg.op = "get_hyperlink_mode" => res.out = "Never"
            /\ arg.op = "generate_github_url" => res.out = Err(NotInitialized)
         \/ \E w \in Threads :
              /\ res.got = Some(ThreadConfig(w))
              /\ pc[w] \in {"return_ok", "done"}
              /\ \A t \in Threads : (Returned(t) /\ ret[t].ok) => t = w
              /\ arg.op = "get_hyperlink_mode" =>
                   res.out = ThreadConfig(w).use_hyperlinks
              /\ arg.op = "generate_github_url" => res.out # Err(NotInitialized)

\* thread 2 won the race, thread 1 lost it, and the reader got the
\* configuration of thread 2
C7_Witness ==
    /\ Returned(1) /\ ~ret[1].ok
    /\ Returned(2) /\ ret[2].ok
    /\ stage = "read"
    /\ res.got = Some(ThreadConfig(2))

(***************************************************************************)
(* SpecFill: IssueTemplate::fill_params applied to a template and a        *)
(* parameter set.                                                          *)
(***************************************************************************)
MaxFillTokens == 3  \* most tokens a title is concatenated from

\* "{", "}", "a", "{a}", "{b}"
FillTokens == {<<123>>, <<125>>, <<97>>, <<123, 97, 125>>, <<123, 98, 125>>}

FillTitles == {join(ts, <<>>) : ts \in SeqsUpTo(FillTokens, MaxFillTokens)}

\* "", "{{b}}{a}"
FillBodies == {<<>>, <<123, 123, 98, 125, 125, 123, 97, 125>>}

\* no label; the labels "{a}", "l"
FillLabels == {<<>>, <<(<<123, 97, 125>>), (<<108>>)>>}

\* "b", "{b}", ""
FillValues == {<<98>>, <<123, 98, 125>>, <<>>}

FillParamSets == ParamSets({<<97>>, <<98>>}, FillValues)

\* the same entries in every iteration order
Reorderings(params) ==
    {p \in [1..Len(params) -> Range(params)] : Range(p) = Range(params)}

InitFill ==
    /\ stage = "input"
    /\ arg \in {[template |-> [title |-> t, body |-> b, labels |-> l], params |-> p] :
                    t \in FillTitles, b \in FillBodies, l \in FillLabels,
                    p \in FillParamSets}
    /\ res = NoResult
    /\ ProgIdle
    /\ HeapIdle
    /\ ThreadsIdle
    /\ IoIdle

\* template.fill_params(&params): the template is borrowed, the result is new
FillParams ==
    /\ stage = "input"
    /\ stage' = "filled"
    /\ res' = [filled |-> fill_params(arg.template, arg.params)]
    /\ UNCHANGED <<arg, progVars, heapVars, threadVars, ioVars>>

\* the same call on the same template, the map iterated in another order
FillParamsAgain ==
    /\ stage = "filled"
    /\ stage' = "refilled"
    /\ \E p \in Reorderings(arg.params) :
         res' = [filled |-> res.filled, order |-> p,
                 refilled |-> fill_params(arg.template, p)]
    /\ UNCHANGED <<arg, progVars, heapVars, threadVars, ioVars>>

NextFill == FillParams \/ FillParamsAgain

SpecFill == InitFill /\ [][NextFill]_vars

(***************************************************************************)
(* Claims about fill_params.                                               *)
(***************************************************************************)
\* `sub` occurs in s
Occurs(sub, s) ==
    \E i \in 1..(Len(s) - Len(sub) + 1) : SubSeq(s, i, i + Len(sub) - 1) = sub

HasBrace(s) == \E i \in 1..Len(s) : s[i] \in {123, 125}

BraceFreeValues(params) == \A i \in 1..Len(params) : ~HasBrace(params[i].value)

BraceFreeKeys(params) == \A i \in 1..Len(params) : ~HasBrace(params[i].key)

\* every brace of s is the '{' or the '}' of a well-formed {name} token
BracesInTokens(s) ==
    \A i \in 1..Len(s) :
        /\ s[i] = 123 => \E j \in 1..Len(s) : WellFormedToken(s, i, j)
        /\ s[i] = 125 => \E k \in 1..Len(s) : WellFormedToken(s, k, i)

\* no {k} is left in the filled title or body, for any supplied key k
NoSuppliedPlaceholderLeft ==
    \A i \in 1..Len(arg.params) :
        LET token == <<123>> \o arg.params[i].key \o <<125>>
        IN  /\ ~Occurs(token, res.filled.title)
            /\ ~Occurs(token, res.filled.body)

\* C11 as stated: when no value contains a brace, the filled title and body
\* contain no {k} for any supplied key k.
C11_NoPlaceholderLeft ==
    (stage = "filled" /\ BraceFreeValues(arg.params)) => NoSuppliedPlaceholderLeft

\* C11 as amended: when no key and no value contains a brace and every brace
\* of the title and of the body belongs to a well-formed {name} token, the
\* filled title and body contain no {k} for any supplied key k.  (A brace
\* next to a token joins what the substitution leaves: "{{a}}" with a = "b"
\* gives "{b}".)
C11_NoPlaceholderLeftInTokenText ==
    (/\ stage = "filled"
     /\ BraceFreeValues(arg.params)
     /\ BraceFreeKeys(arg.params)
     /\ BracesInTokens(arg.template.title)
     /\ BracesInTokens(arg.template.body))
    => NoSuppliedPlaceholderLeft

\* "{a}a{b}" with {b: "", a: "b"} gives "ba"
C11_Witness ==
    /\ stage = "filled"
    /\ arg.template.title = <<123, 97, 125, 97, 123, 98, 125>>
    /\ arg.template.body = <<>>
    /\ arg.params = <<[key |-> <<98>>, value |-> <<>>], [key |-> <<97>>, value |-> <<98>>]>>
    /\ res.filled.title = <<98, 97>>

\* no value contains {k} for a key k of the set
NoValueHoldsPlaceholder(params) ==
    \A i, j \in 1..Len(params) :
        ~Occurs(<<123>> \o params[j].key \o <<125>>, params[i].value)

\* C12 as stated: when no value contains {k} for a key k of the set, the
\* filled title and body are the same for every order of the keys.
C12_OrderIrrelevant ==
    (stage = "refilled" /\ NoValueHoldsPlaceholder(arg.params))
    => (/\ res.refilled.title = res.filled.title
        /\ res.refilled.body = res.filled.body)

\* C12 as amended: when no key and no value contains a brace and every brace
\* of the title and of the body belongs to a well-formed {name} token, the
\* filled title and body are the same for every order of the keys.
C12_OrderIrrelevantInTokenText ==
    (/\ stage = "refilled"
     /\ BraceFreeValues(arg.params)
     /\ BraceFreeKeys(arg.params)
     /\ BracesInTokens(arg.template.title)
     /\ BracesInTokens(arg.template.body))
    => (/\ res.refilled.title = res.filled.title
        /\ res.refilled.body = res.filled.body)

\* "{b}a{a}" filled with a, b and then with b, a: "ba" both times
C12_Witness ==
    /\ stage = "refilled"
    /\ arg.template.title = <<123, 98, 125, 97, 123, 97, 125>>
    /\ Len(arg.params) = 2
    /\ res.order # arg.params
    /\ BraceFreeValues(arg.params)
    /\ res.filled.title # arg.template.title
    /\ res.refilled.title = res.filled.title

\* C14: fill_params leaves the template it is applied to unchanged, and the
\* labels of the result are the labels of the source, element for element,
\* also when a label contains {k} for a supplied key k.
C14_LabelsPassThrough ==
    [][stage' = "filled" =>
          /\ arg'.template = arg.template
          /\ Len(res'.filled.labels) = Len(arg.template.labels)
          /\ \A n \in 1..Len(arg.template.labels) :
                res'.filled.labels[n] = arg.template.labels[n]]_vars

\* the label "{a}" is still "{a}" after a fill that supplies a and changes
\* the title
C14_Witness ==
    /\ stage = "filled"
    /\ \E i \in 1..Len(arg.params) : arg.params[i].key = <<97>>
    /\ arg.template.labels # <<>>
    /\ res.filled.labels[1] = <<123, 97, 125>>
    /\ res.filled.title # arg.template.title

(***************************************************************************)
(* SpecUrl: generate_url and generate_github_url applied to a              *)
(* configuration with the name "t" registered as an inline template, as a  *)
(* template file, as both or not at all.  The program has either made a    *)
(* handle (init_handle, add_template, add_template_file) or committed a    *)
(* builder with the same registrations (init, ..., build).                 *)
(***************************************************************************)
UrlName == <<116>>                          \* "t"

\* IssueTemplate::new("{{a}}", "{b}")
TemplateNested ==
    [title |-> <<123, 123, 97, 125, 125>>, body |-> <<123, 98, 125>>, labels |-> <<>>]

\* IssueTemplate::new("", "").with_labels(vec![""])
TemplateBlankLabel == [title |-> <<>>, body |-> <<>>, labels |-> <<(<<>>)>>]

\* IssueTemplate::new("&body=", "{a}").with_labels(vec!["?&labels=x"])
TemplateSeparators ==
    [title |-> <<38, 98, 111, 100, 121, 61>>, body |-> <<123, 97, 125>>,
     labels |-> <<(<<63, 38, 108, 97, 98, 101, 108, 115, 61, 120>>)>>]

UrlTemplates ==
    {TemplateAB, TemplateA, TemplateNested, TemplateBlankLabel, TemplateSeparators}

\* a template file with content " {a} \n"
FileA == [content |-> <<32, 123, 97, 125, 32, 10>>, labels |-> <<>>]

\* a template file with content "{{a}}{b}{a}"
FileNested ==
    [content |-> <<123, 123, 97, 125, 125, 123, 98, 125, 123, 97, 125>>,
     labels |-> <<>>]

\* a template file with content "\n{a}": a blank first line
FileBlankFirst == [content |-> <<10, 123, 97, 125>>, labels |-> <<>>]

UrlTemplateFiles == {FileAB, FileEmpty, FileA, FileNested, FileBlankFirst}

\* init_handle(..) or init(..), then the registrations under "t"
UrlConfigs ==
    LET new == BugReportConfig_new(Owner, Repo)
        inline == {new} \cup {Handle_add_template(new, UrlName, t) : t \in UrlTemplates}
    IN  inline \cup {Handle_add_template_file(c, UrlName, f) :
                        c \in inline, f \in UrlTemplateFiles}

\* values "x y", "b", "", "&t=#"
UrlParamSets ==
    ParamSets({<<97>>, <<98>>}, {<<120, 32, 121>>, <<98>>, <<>>, <<38, 116, 61, 35>>})

InitUrl ==
    /\ stage = "start"
    /\ arg = NoArgs
    /\ res = NoResult
    /\ hist = NoHistory
    /\ \E config \in UrlConfigs :
         \/ /\ holder = Some([kind |-> "handle", config |-> config])
            /\ CONFIG = OnceCell_new
         \/ /\ holder = None
            /\ CONFIG = build(config, OnceCell_new).cell
    /\ HeapIdle
    /\ ThreadsIdle
    /\ IoIdle

\* handle.generate_url("t", params)
UrlGenerateUrl(params) ==
    /\ stage = "start"
    /\ holder.some
    /\ stage' = "generate_url"
    /\ arg' = [template_name |-> UrlName, params |-> params]
    /\ res' = generate_url(holder.value.config, UrlName, params)
    /\ UNCHANGED <<progVars, heapVars, threadVars, ioVars>>

\* generate_github_url("t", params)
UrlGenerateGithubUrl(params) ==
    /\ stage = "start"
    /\ ~holder.some
    /\ stage' = "generate_github_url"
    /\ arg' = [template_name |-> UrlName, params |-> params]
    /\ res' = generate_github_url(CONFIG, UrlName, params)
    /\ UNCHANGED <<progVars, heapVars, threadVars, ioVars>>

\* the same call once more, with an equal map that iterates in another order
UrlGenerateUrlAgain ==
    /\ stage = "generate_url"
    /\ stage' = "generate_url_again"
    /\ \E p \in Reorderings(arg.params) :
         res' = [first |-> res, order |-> p,
                 second |-> generate_url(holder.value.config, arg.template_name, p)]
    /\ UNCHANGED <<arg, progVars, heapVars, threadVars, ioVars>>

NextUrl ==
    \/ \E p \in UrlParamSets : UrlGenerateUrl(p)
    \/ \E p \in UrlParamSets : UrlGenerateGithubUrl(p)
    \/ UrlGenerateUrlAgain

SpecUrl == InitUrl /\ [][NextUrl]_vars

(***************************************************************************)
(* Claims about URL generation: inline templates are not validated, no     *)
(* empty query value, determinism.                                         *)
(***************************************************************************)
\* the value supplied for key k
ValueOf(params, k) ==
    params[CHOOSE i \in 1..Len(params) : params[i].key = k].value

\* s from position i on, each {name} token whose name is supplied replaced
\* by the value of the name, every other character kept
RECURSIVE TokenSubstituted(_, _, _)
TokenSubstituted(s, params, i) ==
    IF i > Len(s) THEN <<>>
    ELSE IF i \in TokenStarts(s) /\ TokenName(s, i) \in KeySet(params)
    THEN ValueOf(params, TokenName(s, i))
         \o TokenSubstituted(s, params, i + Len(TokenName(s, i)) + 2)
    ELSE <<s[i]>> \o TokenSubstituted(s, params, i + 1)

\* the issue URL of a repository for a title, a body and a label list
ExpectedUrl(owner, repo, title, body, labels) ==
    LET base == <<104, 116, 116, 112, 115, 58, 47, 47, 103, 105, 116, 104, 117,
                  98, 46, 99, 111, 109, 47>>
                \o owner \o <<47>> \o repo
                \o <<47, 105, 115, 115, 117, 101, 115, 47, 110, 101, 119>>
        parts == (IF title # <<>>
                  THEN <<(<<116, 105, 116, 108, 101, 61>> \o encode(title))>>
                  ELSE <<>>)
                 \o (IF body # <<>>
                     THEN <<(<<98, 111, 100, 121, 61>> \o encode(body))>>
                     ELSE <<>>)
                 \o (IF labels # <<>>
                     THEN <<(<<108, 97, 98, 101, 108, 115, 61>>
                             \o join(EncodeEach(labels), <<37, 50, 67>>))>>
                     ELSE <<>>)
    IN  IF parts = <<>> THEN base ELSE base \o <<63>> \o join(parts, <<38>>)

\* C13: when the name resolves to an inline template, generate_url returns
\* Ok for every parameter set.  Where every brace of the template belongs to
\* a {name} token and no value contains a brace, the URL is the one of the
\* title and body with the tokens of the supplied keys replaced and every
\* other token left as it is (and then encoded); supplied keys that match
\* nothing in the title or body change nothing.
C13_InlineUnvalidated ==
    (/\ stage = "generate_url"
     /\ arg.template_name \in DOMAIN holder.value.config.templates)
    => LET config == holder.value.config
           t == config.templates[arg.template_name]
       IN  /\ res.ok
           /\ (/\ BracesInTokens(t.title)
               /\ BracesInTokens(t.body)
               /\ BraceFreeValues(arg.params))
              => res.val = ExpectedUrl(config.github_owner, config.github_repo,
                                       TokenSubstituted(t.title, arg.params, 1),
                                       TokenSubstituted(t.body, arg.params, 1),
                                       t.labels)
           /\ (\A i \in 1..Len(arg.params) :
                  LET token == <<123>> \o arg.params[i].key \o <<125>>
                  IN  ~Occurs(token, t.title) /\ ~Occurs(token, t.body))
              => res.val = ExpectedUrl(config.github_owner, config.github_repo,
                                       t.title, t.body, t.labels)

\* the title "{a}" with only the key b supplied: ".../issues/new?title=%7Ba%7D"
C13_Witness ==
    /\ stage = "generate_url"
    /\ arg.template_name \in DOMAIN holder.value.config.templates
    /\ arg.template_name \in DOMAIN holder.value.config.template_files
    /\ holder.value.config.templates[arg.template_name] = TemplateA
    /\ KeySet(arg.params) = {<<98>>}
    /\ res = Ok(<<104, 116, 116, 112, 115, 58, 47, 47, 103, 105, 116, 104, 117,
                  98, 46, 99, 111, 109, 47, 111, 47, 114, 47, 105, 115, 115, 117,
                  101, 115, 47, 110, 101, 119, 63, 116, 105, 116, 108, 101, 61,
                  37, 55, 66, 97, 37, 55, 68>>)

\* the URL has a query parameter with an empty value: it ends with "=" or
\* holds "=&"
HasEmptyValue(url) ==
    \/ url # <<>> /\ url[Len(url)] = 61
    \/ Occurs(<<61, 38>>, url)

\* C15: in every URL returned by generate_url or generate_github_url, each
\* query parameter that is present has a non-empty value.
C15_NoEmptyValue ==
    (stage \in {"generate_url", "generate_github_url"} /\ res.ok)
    => ~HasEmptyValue(res.val)

\* the text registered under the name: title and body, or file content
RegisteredText(config, name) ==
    IF name \in DOMAIN config.templates
    THEN <<config.templates[name].title, config.templates[name].body>>
    ELSE IF name \in DOMAIN config.template_files
    THEN <<config.template_files[name].content>>
    ELSE <<>>

\* the result is the error "Unused parameter: <key>" for a supplied key
IsUnusedParameterError(result, params) ==
    /\ ~result.ok
    /\ \E i \in 1..Len(params) :
         result.val = <<85, 110, 117, 115, 101, 100, 32, 112, 97, 114, 97, 109,
                        101, 116, 101, 114, 58, 32>> \o params[i].key

\* C20 as stated: two invocations of generate_url with the same
\* configuration, the same name and equal parameter mappings, whatever
\* order the map iterates in, return the same URL or the same error.
C20_Deterministic ==
    stage = "generate_url_again" => res.second = res.first

\* C20 as amended: two such invocations both succeed or both fail.  When
\* they fail the error is the same, except that an "Unused parameter" error
\* names the first unused key in iteration order, so both are "Unused
\* parameter" errors but possibly of different keys.  When they succeed the
\* URL is the same wherever every brace of the template text belongs to a
\* {name} token and no key or value contains a brace.
C20_DeterministicUpToIterationOrder ==
    stage = "generate_url_again" =>
        LET text == RegisteredText(holder.value.config, arg.template_name)
        IN  /\ res.second.ok = res.first.ok
            /\ ~res.first.ok =>
                 \/ res.second = res.first
                 \/ /\ IsUnusedParameterError(res.first, arg.params)
                    /\ IsUnusedParameterError(res.second, arg.params)
            /\ (/\ res.first.ok
                /\ \A n \in 1..Len(text) : BracesInTokens(text[n])
                /\ BraceFreeKeys(arg.params)
                /\ BraceFreeValues(arg.params))
               => res.second = res.first

\* a template file accepts {a, b} in both orders and gives the same URL
C20_Witness ==
    /\ stage = "generate_url_again"
    /\ arg.template_name \notin DOMAIN holder.value.config.templates
    /\ Len(arg.params) = 2
    /\ res.order # arg.params
    /\ arg.params[1].value # arg.params[2].value
    /\ res.first.ok
    /\ res.second = res.first

(***************************************************************************)
(* SpecParse: TemplateFile::parse applied to a template file, twice.       *)
(***************************************************************************)
MaxParseLen == 5    \* longest content of a parsed template file

\* '\n', '\r', ' ', 'a'
ParseAlphabet == {10, 13, 32, 97}

ParseContents == SeqsUpTo(ParseAlphabet, MaxParseLen)

\* no label; the label "l"
ParseLabels == {<<>>, <<(<<108>>)>>}

InitParse ==
    /\ stage = "input"
    /\ arg \in {[template_file |-> [content |-> c, labels |-> l]] :
                    c \in ParseContents, l \in ParseLabels}
    /\ res = NoResult
    /\ ProgIdle
    /\ HeapIdle
    /\ ThreadsIdle
    /\ IoIdle

\* template_file.parse(): the file is borrowed
Parse ==
    /\ stage = "input"
    /\ stage' = "parsed"
    /\ res' = [result |-> parse(arg.template_file)]
    /\ UNCHANGED <<arg, progVars, heapVars, threadVars, ioVars>>

ParseAgain ==
    /\ stage = "parsed"
    /\ stage' = "reparsed"
    /\ res' = [result |-> res.result, again |-> parse(arg.template_file)]
    /\ UNCHANGED <<arg, progVars, heapVars, threadVars, ioVars>>

NextParse == Parse \/ ParseAgain

SpecParse == InitParse /\ [][NextParse]_vars

(***************************************************************************)
(* Claims about parse.                                                     *)
(***************************************************************************)
WhiteSpace == {9, 10, 11, 12, 13, 32}

Blank(s) == \A i \in 1..Len(s) : s[i] \in WhiteSpace

\* s from its first to its last character that is not white space
Trimmed(s) ==
    IF Blank(s) THEN <<>>
    ELSE LET inked == {i \in 1..Len(s) : s[i] \notin WhiteSpace}
             first == CHOOSE i \in inked : \A j \in inked : i <= j
             last == CHOOSE i \in inked : \A j \in inked : j <= i
         IN  SubSeq(s, first, last)

\* the position of the first '\n' of s, Len(s) + 1 if there is none
FirstBreak(s) ==
    LET breaks == {i \in 1..Len(s) : s[i] = 10} \cup {Len(s) + 1}
    IN  CHOOSE i \in breaks : \A j \in breaks : i <= j

\* the first line: the text before the first line ending ("\n" or "\r\n")
FirstLine(s) ==
    LET b == FirstBreak(s)
    IN  IF b <= Len(s) /\ b > 1 /\ s[b - 1] = 13
        THEN SubSeq(s, 1, b - 2)
        ELSE SubSeq(s, 1, b - 1)

\* the text after the first '\n', every line ending "\r\n" written "\n":
\* the remaining lines joined by '\n' (up to a final line ending)
RECURSIVE RemainingText(_, _)
RemainingText(s, i) ==
    IF i > Len(s) THEN <<>>
    ELSE IF s[i] = 13 /\ i < Len(s) /\ s[i + 1] = 10 THEN RemainingText(s, i + 1)
    ELSE <<s[i]>> \o RemainingText(s, i + 1)

\* C16: parse fails exactly when the content has no lines or its first line
\* is blank; otherwise the title is the trimmed first line, the body is the
\* remaining lines joined by '\n' and trimmed (empty when there is one line)
\* and the labels are the labels of the file.  parse leaves the file
\* unchanged, and a second parse gives the result of the first.
C16_ParseResult ==
    [][/\ stage' = "parsed" =>
            LET c == arg.template_file.content
                r == res'.result
            IN  /\ arg' = arg
                /\ ~r.ok <=> (c = <<>> \/ Blank(FirstLine(c)))
                /\ r.ok =>
                     /\ r.val.title = Trimmed(FirstLine(c))
                     /\ r.val.body = Trimmed(RemainingText(c, FirstBreak(c) + 1))
                     /\ r.val.labels = arg.template_file.labels
       /\ stage' = "reparsed" => (arg' = arg /\ res'.again = res.result)]_vars

\* " a\r\na" has the title "a" and the body "a"
C16_Witness ==
    /\ stage = "reparsed"
    /\ arg.template_file.content = <<32, 97, 13, 10, 97>>
    /\ arg.template_file.labels # <<>>
    /\ res.again = Ok([title |-> <<97>>, body |-> <<97>>, labels |-> <<(<<108>>)>>])

(***************************************************************************)
(* SpecReport: a program that makes a handle, registers a template or a    *)
(* template file under "t", sets the hyperlink policy or leaves it alone,  *)
(* and then reports bugs, to an output of its own                          *)
(* (report_bug_with_output) or to none (report_bug).                       *)
(***************************************************************************)
MaxReports == 1     \* most reports in a run

ReportParamSets ==
    {<<>>,
     <<[key |-> <<97>>, value |-> <<120, 32, 121>>]>>,
     <<[key |-> <<97>>, value |-> <<120, 32, 121>>], [key |-> <<98>>, value |-> <<>>]>>,
     <<[key |-> <<98>>, value |-> <<>>], [key |-> <<97>>, value |-> <<120, 32, 121>>]>>}

\* file!() and line!() of the call: "m.rs" line 0 and line 42
ReportSites ==
    {[file |-> <<109, 46, 114, 115>>, line |-> 0],
     [file |-> <<109, 46, 114, 115>>, line |-> 42]}

InitReport ==
    /\ stage = "init_handle"
    /\ arg = NoArgs
    /\ res = NoResult
    /\ holder = Some([kind |-> "handle", config |-> BugReportConfig_new(Owner, Repo)])
    /\ CONFIG = OnceCell_new
    /\ hist = [reports |-> 0, before |-> <<>>, registered |-> FALSE,
               policy_set |-> FALSE]
    /\ HeapIdle
    /\ ThreadsIdle
    /\ sink \in {MockOutput(<<>>), MockOutput(<<120, 10>>)}

\* handle.add_template("t", template)
ReportAddTemplate(template) ==
    /\ hist.reports = 0
    /\ ~hist.registered
    /\ holder' = Some([holder.value EXCEPT
                          !.config = Handle_add_template(@, UrlName, template)])
    /\ hist' = [hist EXCEPT !.registered = TRUE]
    /\ stage' = "add_template"
    /\ arg' = NoArgs
    /\ res' = NoResult
    /\ UNCHANGED <<CONFIG, heapVars, threadVars, ioVars>>

\* handle.add_template_file("t", template_file)
ReportAddTemplateFile(template_file) ==
    /\ hist.reports = 0
    /\ ~hist.registered
    /\ holder' = Some([holder.value EXCEPT
                          !.config = Handle_add_template_file(@, UrlName, template_file)])
    /\ hist' = [hist EXCEPT !.registered = TRUE]
    /\ stage' = "add_template_file"
    /\ arg' = NoArgs
    /\ res' = NoResult
    /\ UNCHANGED <<CONFIG, heapVars, threadVars, ioVars>>

\* handle.hyperlinks(mode)
ReportHyperlinks(mode) ==
    /\ hist.reports = 0
    /\ ~hist.policy_set
    /\ holder' = Some([holder.value EXCEPT !.config = Handle_hyperlinks(@, mode)])
    /\ hist' = [hist EXCEPT !.policy_set = TRUE]
    /\ stage' = "hyperlinks"
    /\ arg' = NoArgs
    /\ res' = NoResult
    /\ UNCHANGED <<CONFIG, heapVars, threadVars, ioVars>>

\* handle.report_bug_with_output("t", params, file, line, &mut sink), in an
\* environment where supports_hyperlinks() returns probe
ReportBugWithOutput(params, site, probe) ==
    /\ hist.reports < MaxReports
    /\ LET r == report_bug_with_output(holder.value.config, UrlName, params,
                                       site.file, site.line, sink, probe)
       IN  /\ sink' = r.output
           /\ res' = [url |-> r.result]
    /\ arg' = [template_name |-> UrlName, params |-> params, file |-> site.file,
               line |-> site.line, probe |-> probe]
    /\ hist' = [hist EXCEPT !.reports = @ + 1, !.before = sink.text]
    /\ stage' = "report_bug_with_output"
    /\ UNCHANGED <<holder, CONFIG, heapVars, threadVars>>

\* handle.report_bug("t", params, file, line)
ReportBug(params, site, probe) ==
    /\ hist.reports < MaxReports
    /\ res' = [url |-> report_bug(holder.value.config, UrlName, params,
                                  site.file, site.line, probe)]
    /\ arg' = [template_name |-> UrlName, params |-> params, file |-> site.file,
               line |-> site.line, probe |-> probe]
    /\ hist' = [hist EXCEPT !.reports = @ + 1, !.before = sink.text]
    /\ stage' = "report_bug"
    /\ UNCHANGED <<holder, CONFIG, heapVars, threadVars, ioVars>>

\* bug_with_handle!(handle, "t", { key = value, ... }): the macro inserts
\* the pairs into a fresh map and calls handle.report_bug with file!() and
\* line!(); `written` is what the output of that call received
BugWithHandle(params, site, probe) ==
    /\ hist.reports < MaxReports
    /\ res' = [url |-> report_bug(holder.value.config, UrlName, params,
                                  site.file, site.line, probe),
               written |-> report_bug_with_output(holder.value.config, UrlName,
                               params, site.file, site.line, NoOutput,
                               probe).output.text]
    /\ arg' = [template_name |-> UrlName, params |-> params, file |-> site.file,
               line |-> site.line, probe |-> probe]
    /\ hist' = [hist EXCEPT !.reports = @ + 1, !.before = sink.text]
    /\ stage' = "bug_with_handle"
    /\ UNCHANGED <<holder, CONFIG, heapVars, threadVars, ioVars>>

NextReport ==
    \/ ReportAddTemplate(TemplateAB)
    \/ \E f \in {FileAB, FileEmpty} : ReportAddTemplateFile(f)
    \/ \E m \in HyperlinkModes : ReportHyperlinks(m)
    \/ \E p \in ReportParamSets, site \in ReportSites, probe \in BOOLEAN :
         ReportBugWithOutput(p, site, probe)
    \/ \E p \in ReportParamSets, site \in ReportSites, probe \in BOOLEAN :
         ReportBug(p, site, probe)
    \/ \E p \in ReportParamSets, site \in ReportSites, probe \in BOOLEAN :
         BugWithHandle(p, site, probe)

SpecReport == InitReport /\ [][NextReport]_vars

(***************************************************************************)
(* Claims about the reporter.                                              *)
(***************************************************************************)
\* the number a string of decimal digits denotes
RECURSIVE DecimalValue(_)
DecimalValue(digits) ==
    IF digits = <<>> THEN 0
    ELSE 10 * DecimalValue(SubSeq(digits, 1, Len(digits) - 1))
         + (digits[Len(digits)] - 48)

\* the decimal numeral of n < 100: digits only, no leading zero
Numeral(n) ==
    CHOOSE d \in SeqsUpTo(48..57, 2) :
        /\ d # <<>>
        /\ Len(d) > 1 => d[1] # 48
        /\ DecimalValue(d) = n

\* the header line: the bug emoji, " BUG ENCOUNTERED in <file>:<line>"
HeaderLine ==
    <<240, 159, 144, 155>>
    \o <<32, 66, 85, 71, 32, 69, 78, 67, 79, 85, 78, 84, 69, 82, 69, 68, 32,
         105, 110, 32>>
    \o arg.file \o <<58>> \o Numeral(arg.line) \o <<10>>

\* "   Template: <name>"
TemplateLine ==
    <<32, 32, 32, 84, 101, 109, 112, 108, 97, 116, 101, 58, 32>>
    \o arg.template_name \o <<10>>

\* "     <key>: <value>" for the i-th parameter
ParameterLine(i) ==
    <<32, 32, 32, 32, 32>> \o arg.params[i].key \o <<58, 32>>
    \o arg.params[i].value \o <<10>>

\* nothing for an empty parameter set, else "   Parameters:" and one line
\* per parameter
ParameterLines ==
    IF arg.params = <<>> THEN <<>>
    ELSE <<32, 32, 32, 80, 97, 114, 97, 109, 101, 116, 101, 114, 115, 58, 10>>
         \o join([i \in 1..Len(arg.params) |-> ParameterLine(i)], <<>>)

\* "   File a bug report: <url>"
PlainLinkLine(url) ==
    <<32, 32, 32, 70, 105, 108, 101, 32, 97, 32, 98, 117, 103, 32, 114, 101,
      112, 111, 114, 116, 58, 32>> \o url \o <<10>>

\* "   " and the OSC 8 hyperlink to url with the text "File a bug report"
HyperLinkLine(url) ==
    <<32, 32, 32, 27, 93, 56, 59, 59>> \o url \o <<27, 92>>
    \o <<70, 105, 108, 101, 32, 97, 32, 98, 117, 103, 32, 114, 101, 112, 111,
         114, 116>>
    \o <<27, 93, 56, 59, 59, 27, 92, 10>>

\* what generate_url returns for the arguments of the report
Generated == generate_url(holder.value.config, arg.template_name, arg.params)

\* the text ends with the suffix
EndsWith(text, suffix) ==
    /\ Len(suffix) <= Len(text)
    /\ SubSeq(text, Len(text) - Len(suffix) + 1, Len(text)) = suffix

\* C17: when URL generation succeeds, report_bug_with_output appends to the
\* output the header line, the Template line, the Parameters heading and
\* one line per parameter if there are parameters, one link line with the
\* URL and an empty line, nothing else, and returns the URL.
C17_SuccessOutput ==
    (stage = "report_bug_with_output" /\ Generated.ok) =>
        /\ res.url = Generated.val
        /\ \E link \in {PlainLinkLine(Generated.val), HyperLinkLine(Generated.val)} :
             sink.text = hist.before \o HeaderLine \o TemplateLine
                         \o ParameterLines \o link \o <<10>>

\* two parameters, written after the text the output held before
C17_Witness ==
    /\ stage = "report_bug_with_output"
    /\ Generated.ok
    /\ Len(arg.params) = 2
    /\ arg.line = 42
    /\ hist.before # <<>>
    /\ sink.text = hist.before \o HeaderLine \o TemplateLine \o ParameterLines
                   \o PlainLinkLine(res.url) \o <<10>>

\* C18: when URL generation fails, report_bug_with_output appends the header
\* line, "   Error generating bug report: <message>" with the message of
\* generate_url and an empty line, nothing else, and returns the empty
\* string; the reporter returns the empty string in this case only.
C18_FailureOutput ==
    /\ (stage = "report_bug_with_output" /\ ~Generated.ok) =>
          /\ res.url = <<>>
          /\ sink.text = hist.before \o HeaderLine
                         \o <<32, 32, 32, 69, 114, 114, 111, 114, 32, 103, 101,
                              110, 101, 114, 97, 116, 105, 110, 103, 32, 98, 117,
                              103, 32, 114, 101, 112, 111, 114, 116, 58, 32>>
                         \o Generated.val \o <<10, 10>>
    /\ stage \in {"report_bug_with_output", "report_bug"} =>
          (res.url = <<>> <=> ~Generated.ok)

\* a template file rejects the parameters: "Missing required parameter: b"
C18_Witness ==
    /\ stage = "report_bug_with_output"
    /\ arg.template_name \in DOMAIN holder.value.config.template_files
    /\ Len(arg.params) = 1
    /\ ~Generated.ok
    /\ res.url = <<>>
    /\ EndsWith(sink.text, <<112, 97, 114, 97, 109, 101, 116, 101, 114, 58, 32,
                             98, 10, 10>>)

\* C19: the link line is the hyperlink rendering with Always, the plain
\* line with Never, and with Auto the hyperlink rendering exactly when the
\* probe returns true; a handle whose policy was never set behaves as Auto.
C19_LinkByPolicy ==
    (stage = "report_bug_with_output" /\ Generated.ok) =>
        LET mode == holder.value.config.use_hyperlinks
            hyper == EndsWith(sink.text, HyperLinkLine(Generated.val) \o <<10>>)
            plain == EndsWith(sink.text, PlainLinkLine(Generated.val) \o <<10>>)
        IN  /\ hyper # plain
            /\ mode = "Always" => hyper
            /\ mode = "Never" => plain
            /\ mode = "Auto" => (hyper <=> arg.probe)
            /\ ~hist.policy_set => (hyper <=> arg.probe)

\* Always with a probe that returns false: the hyperlink is written
C19_Witness ==
    /\ stage = "report_bug_with_output"
    /\ Generated.ok
    /\ holder.value.config.use_hyperlinks = "Always"
    /\ ~arg.probe
    /\ EndsWith(sink.text, HyperLinkLine(res.url) \o <<10>>)

(***************************************************************************)
(* Claims about the global configuration before and after build().         *)
(***************************************************************************)
\* C21: before the first build() of the program, generate_github_url
\* returns the not-initialized error for every name and parameter set, also
\* for a name registered with a builder that is not built, and
\* get_hyperlink_mode returns Never; after it, generate_github_url never
\* returns that error and get_hyperlink_mode returns the policy of the
\* builder that was committed.
C21_BeforeAndAfterBuild ==
    LET not_initialized ==
            Err(<<66, 117, 103, 32, 114, 101, 112, 111, 114, 116, 105, 110, 103,
                  32, 110, 111, 116, 32, 105, 110, 105, 116, 105, 97, 108, 105,
                  122, 101, 100, 46, 32, 67, 97, 108, 108, 32, 98, 117, 103, 95,
                  114, 115, 58, 58, 105, 110, 105, 116, 40, 41, 32, 102, 105,
                  114, 115, 116, 46>>)
    IN  /\ stage = "generate_github_url" =>
              IF hist.builds = 0 THEN res = not_initialized
              ELSE res # not_initialized
        /\ stage = "get_hyperlink_mode" =>
              IF hist.builds = 0 THEN res.mode = "Never"
              ELSE res.mode = hist.first.value.use_hyperlinks

\* a builder holds a template under the name asked for, nothing is built,
\* and the global generator answers that it is not initialized
C21_Witness ==
    /\ stage = "generate_github_url"
    /\ hist.builds = 0
    /\ holder.some
    /\ holder.value.kind = "builder"
    /\ arg.template_name \in DOMAIN holder.value.config.templates
    /\ ~res.ok

\* after a build() that committed Always, get_hyperlink_mode returns Always
C21_WitnessAfter ==
    /\ stage = "get_hyperlink_mode"
    /\ hist.builds >= 1
    /\ res.mode = "Always"

(***************************************************************************)
(* Claims about the bug_with_handle! macro.                                *)
(***************************************************************************)
\* C22: every bug_with_handle! invocation whose URL generation succeeds
\* writes the header line, the Template line, the parameter lines and the
\* link line to an output (the program's output or the one the call was
\* given), and returns the URL.
C22_MacroPrints ==
    (stage = "bug_with_handle" /\ Generated.ok) =>
        /\ res.url = Generated.val
        /\ \E link \in {PlainLinkLine(Generated.val), HyperLinkLine(Generated.val)} :
             \E text \in {sink.text, res.written} :
                EndsWith(text, HeaderLine \o TemplateLine \o ParameterLines
                               \o link \o <<10>>)

(***************************************************************************)
(* The global CONFIG without std: `static mut CONFIG: Option<..>`.         *)
(* build() matches on CONFIG and, in the None arm, assigns Some(config);   *)
(* nothing orders the match of one thread and the assignment of another,   *)
(* and the assignment writes the fields of the value one after another.    *)
(***************************************************************************)
\* get_hyperlink_mode (no_std), given what the read of CONFIG returned
get_hyperlink_mode_no_std(slot) ==
    IF slot.some THEN slot.value.use_hyperlinks ELSE "Never"

InitNoStd ==
    /\ stage = "start"
    /\ arg = NoArgs
    /\ res = NoResult
    /\ holder = None
    /\ CONFIG = None
    /\ hist = NoHistory
    /\ HeapIdle
    /\ pc = [t \in Threads |-> "start"]
    /\ ret = [t \in Threads |-> NoResult]
    /\ IoIdle

\* `match CONFIG`: the thread takes the arm of what CONFIG holds now
NoStdMatch(t) ==
    /\ pc[t] = "start"
    /\ pc' = [pc EXCEPT ![t] = IF CONFIG.some THEN "return_err" ELSE "write_head"]
    /\ UNCHANGED <<callVars, progVars, heapVars, ret, ioVars>>

\* `CONFIG = Some(self.config)`: the first fields of the value
NoStdWriteHead(t) ==
    /\ pc[t] = "write_head"
    /\ CONFIG' = slot_write_head(CONFIG, ThreadConfig(t))
    /\ pc' = [pc EXCEPT ![t] = "write_rest"]
    /\ UNCHANGED <<callVars, holder, hist, heapVars, ret, ioVars>>

\* `CONFIG = Some(self.config)`: the remaining fields and the discriminant
NoStdWriteRest(t) ==
    /\ pc[t] = "write_rest"
    /\ CONFIG' = slot_write_rest(CONFIG, ThreadConfig(t))
    /\ pc' = [pc EXCEPT ![t] = "return_ok"]
    /\ UNCHANGED <<callVars, holder, hist, heapVars, ret, ioVars>>

\* the Some arm returns the error, the None arm falls through to Ok(())
NoStdReturn(t) ==
    /\ pc[t] \in {"return_ok", "return_err"}
    /\ ret' = [ret EXCEPT ![t] = IF pc[t] = "return_ok"
                                 THEN Ok(<<>>) ELSE Err(AlreadyInitialized)]
    /\ pc' = [pc EXCEPT ![t] = "done"]
    /\ UNCHANGED <<callVars, progVars, heapVars, ioVars>>

\* get_hyperlink_mode() reads CONFIG as it is
NoStdGetHyperlinkMode ==
    /\ stage \in {"start", "read"}
    /\ stage' = "read"
    /\ arg' = [op |-> "get_hyperlink_mode"]
    /\ res' = [got |-> CONFIG, mode |-> get_hyperlink_mode_no_std(CONFIG)]
    /\ UNCHANGED <<progVars, heapVars, threadVars, ioVars>>

NextNoStd ==
    \/ \E t \in Threads : NoStdMatch(t)
    \/ \E t \in Threads : NoStdWriteHead(t)
    \/ \E t \in Threads : NoStdWriteRest(t)
    \/ \E t \in Threads : NoStdReturn(t)
    \/ NoStdGetHyperlinkMode

SpecNoStd == InitNoStd /\ [][NextNoStd]_vars

\* C23: of the concurrent no_std build() calls at most one returns Ok, the
\* others return the already-initialized error, and once a call has
\* returned Ok and no assignment is in progress the stored configuration is
\* the one of the call that returned Ok.
C23_NoStdOneWinner ==
    /\ \A t, u \in Threads :
         (Returned(t) /\ Returned(u) /\ ret[t].ok /\ ret[u].ok) => t = u
    /\ \A t \in Threads :
         (Returned(t) /\ ~ret[t].ok) => ret[t].val = AlreadyInitialized
    /\ \A t \in Threads :
         (Returned(t) /\ ret[t].ok
            /\ \A u \in Threads : pc[u] \notin {"write_head", "write_rest"})
         => CONFIG = Some(ThreadConfig(t))

(***************************************************************************)
(* Claims about the order of parsing and validation of a template file.    *)
(***************************************************************************)
\* C24: for a file-backed template whose content has no lines or whose
\* first line is blank, generate_url fails with the empty-template error
\* (empty file, or no title) for every parameter set.
C24_EmptyTemplateFirst ==
    (/\ stage = "generate_url"
     /\ arg.template_name \notin DOMAIN holder.value.config.templates
     /\ arg.template_name \in DOMAIN holder.value.config.template_files
     /\ Blank(FirstLine(
            holder.value.config.template_files[arg.template_name].content)))
    => /\ ~res.ok
       /\ res.val \in {TemplateFileIsEmpty, TemplateMustHaveTitle}

(***************************************************************************)
(* Claims about which error validate_params reports.                       *)
(***************************************************************************)
\* C25: when validate_params fails and some placeholder has no supplied
\* key, the error is "Missing required parameter: <p>" with p the first
\* such placeholder in scan order, also when unused keys are present; the
\* error is "Unused parameter: <k>" only when every placeholder is
\* supplied, and k is then a supplied key that is not a placeholder.
C25_MissingBeforeUnused ==
    (stage = "validated" /\ ~res.result.ok) =>
        LET s == arg.template_file.content
            names == FirstOccurrences(
                         s, {i \in TokenStarts(s) : OpensGroup(s, i)}, 1, <<>>)
            missing == {n \in 1..Len(names) : names[n] \notin KeySet(arg.params)}
            unused == {i \in 1..Len(arg.params) :
                          arg.params[i].key \notin Range(names)}
        IN  IF missing # {}
            THEN res.result.val =
                     <<77, 105, 115, 115, 105, 110, 103, 32, 114, 101, 113, 117,
                       105, 114, 101, 100, 32, 112, 97, 114, 97, 109, 101, 116,
                       101, 114, 58, 32>>
                     \o names[CHOOSE n \in missing : \A m \in missing : n <= m]
            ELSE \E i \in unused :
                    res.result.val =
                        <<85, 110, 117, 115, 101, 100, 32, 112, 97, 114, 97, 109,
                          101, 116, 101, 114, 58, 32>> \o arg.params[i].key

\* "{a_1}{b}" with the parameter a: two placeholders missing and one key
\* unused, the error names a_1
C25_Witness ==
    /\ stage = "validated"
    /\ arg.template_file.content = <<123, 97, 95, 49, 125, 123, 98, 125>>
    /\ KeySet(arg.params) = {<<97>>}
    /\ ~res.result.ok
    /\ EndsWith(res.result.val, <<58, 32, 97, 95, 49>>)

(***************************************************************************)
(* Claims about where extract_placeholders resumes.                        *)
(***************************************************************************)
\* the names of `first`, then the names of `second` not among them
MergeNames(first, second) ==
    first \o SelectSeq(second, LAMBDA name : ~Contains(first, name))

\* C26: a character that aborts an in-progress placeholder is consumed: the
\* result is that of the text before the '{' that opened the placeholder,
\* continued with the text after the aborting character (so an aborting
\* '{' opens nothing); "{}" records nothing and scanning continues after
\* it; a "{name" left unterminated at the end of the text records nothing.
C26_AbortConsumes ==
    stage = "extracted" =>
        LET s == arg.template_file.content
            Before(k) == extract_placeholders(SubSeq(s, 1, k - 1))
            After(j) == extract_placeholders(SubSeq(s, j + 1, Len(s)))
            NamesBetween(k, j) == \A m \in (k + 1)..(j - 1) : IsNameChar(s[m])
        IN  \A k \in {i \in 1..Len(s) : OpensGroup(s, i)} :
              /\ \A j \in (k + 1)..Len(s) :
                   (NamesBetween(k, j) /\ ~IsNameChar(s[j]) /\ s[j] # 125)
                   => res.placeholders = MergeNames(Before(k), After(j))
              /\ (k < Len(s) /\ s[k + 1] = 125)
                   => res.placeholders = MergeNames(Before(k), After(k + 1))
              /\ NamesBetween(k, Len(s) + 1)
                   => res.placeholders = Before(k)

\* "{{a}": the second '{' aborts the first and is consumed, nothing is found
C26_Witness ==
    /\ stage = "extracted"
    /\ arg.template_file.content = <<123, 123, 97, 125>>
    /\ res.placeholders = <<>>

(***************************************************************************)
(* Claims relating the global and the handle-based generator.              *)
(***************************************************************************)
\* C27: generate_github_url with the configuration C committed globally
\* returns the URL or the error that generate_url returns on a handle
\* whose configuration is C, for the same template name and parameters.
C27_GlobalAsHandle ==
    stage = "generate_github_url" =>
        /\ CONFIG.slot.some
        /\ res = generate_url(CONFIG.slot.value, arg.template_name, arg.params)

\* a URL with title, body and labels from the committed inline template
C27_Witness ==
    /\ stage = "generate_github_url"
    /\ res.ok
    /\ UrlName \in DOMAIN CONFIG.slot.value.templates
    /\ CONFIG.slot.value.templates[UrlName] = TemplateAB
    /\ Len(arg.params) = 2

\* an error of the file-backed path from the committed configuration
C27_WitnessError ==
    /\ stage = "generate_github_url"
    /\ ~res.ok
    /\ res = generate_url(CONFIG.slot.value, arg.template_name, arg.params)
    /\ UrlName \in DOMAIN CONFIG.slot.value.template_files

(***************************************************************************)
(* Claims about the injectivity of encode.                                 *)
(***************************************************************************)
\* reading an encoded text back: '+' is a space, "%XY" the byte with the
\* hexadecimal digits X and Y, any other character itself
RECURSIVE Decoded(_)
Decoded(out) ==
    IF out = <<>> THEN <<>>
    ELSE IF out[1] = 43 THEN <<32>> \o Decoded(Tail(out))
    ELSE IF out[1] = 37 /\ Len(out) >= 3
    THEN <<16 * HexValue(out[2]) + HexValue(out[3])>>
         \o Decoded(SubSeq(out, 4, Len(out)))
    ELSE <<out[1]>> \o Decoded(Tail(out))

\* the number of positions of s that hold c
CountOf(s, c) == Cardinality({i \in 1..Len(s) : s[i] = c})

\* C28: encode is injective: the input is recovered from the output by
\* reading '+' as a space and %XY as a byte, so two different inputs never
\* give the same output; the output has one '+' per input space and none
\* for an input '+', which is emitted as %2B.
C28_Injective ==
    stage = "encoded" =>
        /\ Decoded(res.output) = arg.input
        /\ CountOf(res.output, 43) = CountOf(arg.input, 32)
        /\ arg.input = <<43>> => res.output = <<37, 50, 66>>

\* " +" gives "+%2B"
C28_Witness ==
    /\ stage = "encoded"
    /\ arg.input = <<32, 43>>
    /\ res.output = <<43, 37, 50, 66>>

(***************************************************************************)
(* Claims about the shape of the query string.                             *)
(***************************************************************************)
\* the text after the first '?' of the URL, <<>> if it has none
QueryPart(url) ==
    LET marks == {i \in 1..Len(url) : url[i] = 63}
    IN  IF marks = {} THEN <<>>
        ELSE SubSeq(url, 1 + (CHOOSE i \in marks : \A j \in marks : i <= j), Len(url))

\* the query is made of unreserved characters, '+', '&', '=' and "%XY"
\* escapes with two upper-case hexadecimal digits
QueryAlphabetOnly(q) ==
    \A i \in 1..Len(q) :
        \/ q[i] \in UnreservedChars \cup {43, 38, 61}
        \/ /\ q[i] = 37
           /\ i + 2 <= Len(q)
           /\ q[i + 1] \in UpperHexDigits
           /\ q[i + 2] \in UpperHexDigits

\* C29: in every URL generate_url returns, the part after '?' holds one
\* '=' per present parameter (non-empty title, non-empty body, non-empty
\* label list: three at most), one '&' fewer than that, and otherwise only
\* unreserved characters, '+' and %XY escapes; a URL with no present
\* parameter has no '?'.
C29_NoInjectedParameter ==
    (stage = "generate_url" /\ res.ok) =>
        LET filled == Handle_lookup(holder.value.config, arg.template_name,
                                    arg.params).val
            present == (IF filled.title # <<>> THEN 1 ELSE 0)
                       + (IF filled.body # <<>> THEN 1 ELSE 0)
                       + (IF filled.labels # <<>> THEN 1 ELSE 0)
            q == QueryPart(res.val)
        IN  /\ present <= 3
            /\ CountOf(res.val, 63) = (IF present = 0 THEN 0 ELSE 1)
            /\ CountOf(q, 61) = present
            /\ present > 0 => CountOf(q, 38) = present - 1
            /\ QueryAlphabetOnly(q)

\* title "&body=", a value "&t=#" in the body, a label "?&labels=x": three
\* parameters, three '=' and two '&'
C29_Witness ==
    /\ stage = "generate_url"
    /\ res.ok
    /\ UrlName \in DOMAIN holder.value.config.templates
    /\ holder.value.config.templates[UrlName] = TemplateSeparators
    /\ arg.params = <<[key |-> <<97>>, value |-> <<38, 116, 61, 35>>]>>
    /\ CountOf(QueryPart(res.val), 61) = 3
    /\ CountOf(QueryPart(res.val), 38) = 2

(***************************************************************************)
(* SpecFromFile: IssueTemplate::from_template_file applied to a template   *)
(* file and a parameter set.                                               *)
(***************************************************************************)
\* "{a}", "{b}", "{{a}}", "\n", "T "
FromFileTokens ==
    {<<123, 97, 125>>, <<123, 98, 125>>, <<123, 123, 97, 125, 125>>, <<10>>,
     <<84, 32>>}

\* contents: up to MaxTokens tokens, concatenated
FromFileContents == {join(ts, <<>>) : ts \in SeqsUpTo(FromFileTokens, MaxTokens)}

\* keys "a", "b"; values "x", "{b}"
FromFileParams == ParamSets({<<97>>, <<98>>}, {<<120>>, <<123, 98, 125>>})

InitFromFile ==
    /\ stage = "input"
    /\ arg \in {[template_file |-> [content |-> c, labels |-> <<>>], params |-> p] :
                    c \in FromFileContents, p \in FromFileParams}
    /\ res = NoResult
    /\ ProgIdle
    /\ HeapIdle
    /\ ThreadsIdle
    /\ IoIdle

\* IssueTemplate::from_template_file(&template_file, &params)
FromTemplateFile ==
    /\ stage = "input"
    /\ stage' = "from_template_file"
    /\ res' = [result |-> from_template_file(arg.template_file, arg.params)]
    /\ UNCHANGED <<arg, progVars, heapVars, threadVars, ioVars>>

NextFromFile == FromTemplateFile

SpecFromFile == InitFromFile /\ [][NextFromFile]_vars

\* nothing is left to extract from the filled title and body, and the
\* token of every supplied key stood in the content and is gone
FilledCompletely ==
    /\ extract_placeholders(res.result.val.title) = <<>>
    /\ extract_placeholders(res.result.val.body) = <<>>
    /\ \A i \in 1..Len(arg.params) :
         LET token == <<123>> \o arg.params[i].key \o <<125>>
         IN  /\ Occurs(token, arg.template_file.content)
             /\ ~Occurs(token, res.result.val.title)
             /\ ~Occurs(token, res.result.val.body)

\* C30 as stated: whenever from_template_file succeeds with values that
\* contain no brace, extract_placeholders returns the empty list for the
\* filled title and for the filled body, and every supplied key was
\* substituted.
C30_NothingLeftToExtract ==
    (/\ stage = "from_template_file"
     /\ res.result.ok
     /\ BraceFreeValues(arg.params))
    => FilledCompletely

\* C30 as amended: for a content in which every brace belongs to a
\* well-formed {name} token, whenever from_template_file succeeds with
\* values that contain no brace, extract_placeholders returns the empty
\* list for the filled title and for the filled body, and every supplied
\* key was substituted.  (A brace around a token is not seen by the scanner
\* but the substitution finds the token: "{a}{{a}}" with a = "x" gives
\* "x{x}".)
C30_NothingLeftToExtractInTokenText ==
    (/\ stage = "from_template_file"
     /\ res.result.ok
     /\ BraceFreeValues(arg.params)
     /\ BracesInTokens(arg.template_file.content))
    => FilledCompletely

\* "{a}\n{b}" with {b: "x", a: "x"} gives the title "x" and the body "x"
C30_Witness ==
    /\ stage = "from_template_file"
    /\ arg.template_file.content = <<123, 97, 125, 10, 123, 98, 125>>
    /\ Len(arg.params) = 2
    /\ BraceFreeValues(arg.params)
    /\ res.result.ok
    /\ res.result.val.title = <<120>>
    /\ res.result.val.body = <<120>>

====
